---- MODULE Spec2Model ----
(***************************************************************************)
(* A model of the tactical rules engine: the TurnManager (engine/turns.py), *)
(* the TileMap (engine/map.py), the A* pathfinder (engine/pathfinding.py),  *)
(* the bounded reachability scan bfs_reachable (app.py), line of sight      *)
(* (engine/los.py) and the combat functions of app.py.                      *)
(*                                                                         *)
(* Coordinates are pairs <<i, j>> (column, row).  Times are integers in     *)
(* milliseconds (the code's floats 0.8, dt are seconds).                    *)
(***************************************************************************)
EXTENDS Integers, Sequences, FiniteSets, TLC

VARIABLES
    \* ---- TurnManager (engine/turns.py) ----
    turn,          \* TurnManager.turn
    phase,         \* TurnManager.phase : "PLAYER" | "ENEMY"
    enemy_timer,   \* TurnManager._enemy_timer, in ms
    crashed,       \* TRUE once an uncaught exception has ended the program
    \* ---- TileMap (engine/map.py) ----
    cols,          \* TileMap.cols
    rows,          \* TileMap.rows
    blocked,       \* TileMap.blocked
    crates,        \* TileMap.crates
    \* ---- one call of a_star (engine/pathfinding.py) ----
    as_start,      \* argument start
    as_goal,       \* argument goal
    as_cols,       \* argument cols
    as_rows,       \* argument rows
    as_blocked,    \* argument blocked
    path,          \* the returned list, as a sequence
    as_pc,         \* "idle" (no call) | "call" | "done"
    \* ---- one call of bfs_reachable (app.py), on the TileMap above ----
    bfs_origin,    \* argument origin
    bfs_max,       \* argument max_steps
    bfs_extra,     \* argument extra_blocked
    reachable,     \* the returned set
    bfs_pc,        \* "idle" (no call) | "call" | "done"
    \* ---- one call of a pure function of engine/los.py or app.py ----
    call_args,     \* the arguments, as a tuple (<<>> when no call was made)
    call_result,   \* the returned value ("none" when no call was made)
    \* ---- the combat state of main() (app.py) ----
    squad,         \* main.squad : sequence of Unit records
    enemies,       \* main.enemies : sequence of Enemy records
    log,           \* main.log : sequence of strings
    raised,        \* "none", or the exception that ended the program
    \* ---- the movement and enemy-phase state of main() (app.py) ----
    pending_dest,      \* main.pending_dest : per unit, the ordered tile or None
    enemy_plans,       \* main.enemy_plans : None, or the dict of planned paths
    enemy_steps_left,  \* main.enemy_steps_left : the dict of step budgets
    \* ---- the last operation called, with its arguments (history) ----
    lastOp

turnVars == <<turn, phase, enemy_timer, crashed>>
mapVars  == <<cols, rows, blocked, crates>>
astarVars == <<as_start, as_goal, as_cols, as_rows, as_blocked, path, as_pc>>
bfsVars  == <<bfs_origin, bfs_max, bfs_extra, reachable, bfs_pc>>
callVars == <<call_args, call_result>>
combatVars == <<squad, enemies, log, raised>>
gameVars == <<pending_dest, enemy_plans, enemy_steps_left>>

(***************************************************************************)
(* Bounds of the model.                                                    *)
(***************************************************************************)
MaxTurn == 4            \* the turn counter is capped in the guards
PathCols == 3           \* columns of the grids searched
PathRows == 3           \* rows of the grids searched
MaxWalls == 3           \* most cells in a blocked-set handed to a_star
MaxMapWalls == 2        \* most walls of the TileMap bfs_reachable scans
MaxSteps == 3           \* largest max_steps handed to bfs_reachable
LosCols == 4            \* columns of the TileMap has_los is called on
LosRows == 2            \* rows of the TileMap has_los is called on
MaxLosWalls == 1        \* most walls of the TileMap has_los is called on
CombatCols == 2         \* columns of the TileMap shots are computed on
CombatRows == 3         \* rows of the TileMap shots are computed on
MaxCombatWalls == 1     \* most walls of the TileMap shots are computed on
MaxWaypoints == 2       \* the longest path handed to set_path on its own
GameCols == 3           \* columns of the two-row map the game is played on
MaxLog == 1             \* resolve_shot is not called once the log is this long

(***************************************************************************)
(* Program constants.                                                      *)
(***************************************************************************)
ENEMY_TIMER_MS == 800   \* turns.py:17  self._enemy_timer = 0.8
GRID_COLS == 20         \* settings.py:10
GRID_ROWS == 20         \* settings.py:11
BASE_AIM == 65          \* settings.py:33
BASE_CRIT == 0          \* settings.py:34
COVER_FULL_DEF == 40    \* settings.py:35
FLANK_CRIT == 40        \* settings.py:37
HIT_FLOOR == 5          \* settings.py:38
HIT_CEIL == 95          \* settings.py:39
SHOOT_AP_COST == 1      \* settings.py:41
WEAPON_DMG_MIN == 2     \* settings.py:43
WEAPON_DMG_MAX == 4     \* settings.py:44
CRIT_BONUS_DMG == 2     \* settings.py:45
OVERWATCH_AIM_MALUS == 15   \* settings.py:48
ENEMY_DEFAULT_HP == 3   \* settings.py:50
CLIP_SIZE == 3          \* settings.py:54
COVER_HALF_DEF == 20    \* settings.py:57
UNIT_AP_MAX == 2        \* unit.py:34  self.ap_max = 2
MOVEMENT_TILES_PER_AP == 6  \* settings.py:24
OVERWATCH_AP_COST == 1  \* settings.py:47
ENEMY_STEPS_PER_TURN == 6   \* settings.py:51
RELOAD_AP_COST == 1     \* settings.py:55

\* Frame times handed to update(dt), in ms (app_v10.py: dt = clock.tick(FPS)/1000).
DtValues == {100, 300, 800}

\* Every cell of a c x r grid, and every set of at most k cells.
GridCells(c, r) == (0..(c - 1)) \X (0..(r - 1))

CellSets(cells, k) == {W \in SUBSET cells : Cardinality(W) <= k}

(***************************************************************************)
(* TurnManager                                                             *)
(***************************************************************************)
TurnManagerInit ==
    /\ turn = 1
    /\ phase = "PLAYER"
    /\ enemy_timer = 0
    /\ crashed = FALSE

\* A plausible slip: ending the player turn also counts a new turn.
end_player_turn_counts ==
    /\ phase' = "ENEMY"
    /\ turn' = turn + 1
    /\ enemy_timer' = ENEMY_TIMER_MS
    /\ UNCHANGED crashed

\* TurnManager.end_player_turn
end_player_turn ==
    IF phase = "PLAYER"
    THEN /\ phase' = "ENEMY"
         /\ enemy_timer' = ENEMY_TIMER_MS
         /\ UNCHANGED <<turn, crashed>>
    ELSE UNCHANGED turnVars

\* TurnManager.update(dt): the timer-driven return to the player phase.
update(dt) ==
    IF phase = "ENEMY"
    THEN IF enemy_timer - dt <= 0
         THEN /\ enemy_timer' = enemy_timer - dt
              /\ phase' = "PLAYER"
              /\ turn' = turn + 1
              /\ UNCHANGED crashed
         ELSE /\ enemy_timer' = enemy_timer - dt
              /\ UNCHANGED <<turn, phase, crashed>>
    ELSE UNCHANGED turnVars

\* tm.complete_enemy_turn() as app.py:735 calls it.  TurnManager defines no such
\* attribute, so the call raises AttributeError: nothing of the TurnManager
\* changes and the exception leaves main() through its finally clause.
complete_enemy_turn ==
    /\ crashed' = TRUE
    /\ UNCHANGED <<turn, phase, enemy_timer>>

EndPlayerTurn ==
    /\ ~crashed
    /\ end_player_turn
    /\ lastOp' = <<"end_player_turn">>
    /\ UNCHANGED <<mapVars, astarVars, bfsVars, callVars, combatVars, gameVars>>

Update ==
    /\ ~crashed
    /\ turn < MaxTurn
    /\ \E dt \in DtValues :
          /\ update(dt)
          /\ lastOp' = <<"update", dt>>
    /\ UNCHANGED <<mapVars, astarVars, bfsVars, callVars, combatVars, gameVars>>

CompleteEnemyTurn ==
    /\ ~crashed
    /\ complete_enemy_turn
    /\ lastOp' = <<"complete_enemy_turn">>
    /\ UNCHANGED <<mapVars, astarVars, bfsVars, callVars, combatVars, gameVars>>

(***************************************************************************)
(* TileMap                                                                 *)
(***************************************************************************)
\* The demo obstacles TileMap.__init__ places.
DemoBlocked ==
    {<<GRID_COLS \div 2, j>> : j \in 6..13} \cup {<<8, 5>>, <<9, 5>>, <<9, 6>>, <<10, 6>>}

DemoCrates == {<<6, 8>>, <<11, 9>>}

\* TileMap(cols, rows)
TileMapInit(c, r) ==
    /\ cols = c
    /\ rows = r
    /\ blocked = DemoBlocked
    /\ crates = DemoCrates

\* A plausible slip: the lower bounds are not tested.
in_bounds_no_lower(c) == c[1] < cols /\ c[2] < rows

\* TileMap.in_bounds
in_bounds(c) == 0 <= c[1] /\ c[1] < cols /\ 0 <= c[2] /\ c[2] < rows

\* A plausible slip: crates counted as impassable.
passable_crates_block(c) == c \notin blocked /\ c \notin crates

\* TileMap.passable
passable(c) == c \notin blocked

\* A plausible slip: the wall is added without evicting the crate.
toggle_block_keeps_crate(c) ==
    IF ~in_bounds(c)
    THEN UNCHANGED <<blocked, crates>>
    ELSE IF c \in blocked
         THEN /\ blocked' = blocked \ {c}
              /\ UNCHANGED crates
         ELSE /\ blocked' = blocked \cup {c}
              /\ UNCHANGED crates

\* TileMap.toggle_block
toggle_block(c) ==
    IF ~in_bounds(c)
    THEN UNCHANGED <<blocked, crates>>
    ELSE IF c \in blocked
         THEN /\ blocked' = blocked \ {c}
              /\ UNCHANGED crates
         ELSE /\ crates' = crates \ {c}
              /\ blocked' = blocked \cup {c}

\* A plausible slip: a crate is placed without testing for a wall.
toggle_crate_ignores_walls(c) ==
    IF ~in_bounds(c)
    THEN UNCHANGED <<blocked, crates>>
    ELSE IF c \in crates
         THEN /\ crates' = crates \ {c}
              /\ UNCHANGED blocked
         ELSE /\ crates' = crates \cup {c}
              /\ UNCHANGED blocked

\* A plausible slip: removing a crate is refused, so a second call does not
\* undo the first.
toggle_crate_never_removes(c) ==
    IF ~in_bounds(c)
    THEN UNCHANGED <<blocked, crates>>
    ELSE IF c \in blocked
         THEN UNCHANGED <<blocked, crates>>
         ELSE /\ crates' = crates \cup {c}
              /\ UNCHANGED blocked

\* TileMap.toggle_crate
toggle_crate(c) ==
    IF ~in_bounds(c)
    THEN UNCHANGED <<blocked, crates>>
    ELSE IF c \in blocked
         THEN UNCHANGED <<blocked, crates>>
         ELSE IF c \in crates
              THEN /\ crates' = crates \ {c}
                   /\ UNCHANGED blocked
              ELSE /\ crates' = crates \cup {c}
                   /\ UNCHANGED blocked

\* The coordinates the toggles are called with: demo walls, demo crates, free
\* cells and cells outside the 20x20 grid.  In a step of a toggle, lastOp'
\* holds the coordinate, whether it held a crate, and blocked and crates as
\* they were before the call.
ToggleCells ==
    {<<6, 8>>, <<11, 9>>, <<8, 5>>, <<10, 6>>, <<0, 0>>, <<1, 0>>,
     <<-1, 0>>, <<20, 3>>, <<3, 20>>, <<0, -1>>}

ToggleBlock ==
    /\ \E c \in ToggleCells :
          /\ toggle_block(c)
          /\ lastOp' = <<"toggle_block", c, c \in crates, blocked, crates>>
    /\ UNCHANGED <<cols, rows>>
    /\ UNCHANGED <<turnVars, astarVars, bfsVars, callVars, combatVars, gameVars>>

ToggleCrate ==
    /\ \E c \in ToggleCells :
          /\ toggle_crate(c)
          /\ lastOp' = <<"toggle_crate", c, c \in crates, blocked, crates>>
    /\ UNCHANGED <<cols, rows>>
    /\ UNCHANGED <<turnVars, astarVars, bfsVars, callVars, combatVars, gameVars>>

(***************************************************************************)
(* Pathfinder (engine/pathfinding.py)                                      *)
(***************************************************************************)
NO_G == 1000000000      \* pathfinding.py:56  g.get((nx, ny), 1_000_000_000)

Abs(x) == IF x < 0 THEN -x ELSE x

manhattan(a, b) == Abs(a[1] - b[1]) + Abs(a[2] - b[2])

neighbors_4(i, j) == <<<<i + 1, j>>, <<i - 1, j>>, <<i, j + 1>>, <<i, j - 1>>>>

\* Python's order on the heap entries (priority, (i, j)).
EntryLess(a, b) ==
    \/ a[1] < b[1]
    \/ a[1] = b[1] /\ a[2][1] < b[2][1]
    \/ a[1] = b[1] /\ a[2][1] = b[2][1] /\ a[2][2] < b[2][2]

\* A plausible slip: the queue yields its greatest entry (an inverted priority).
PriorityQueue_pop_greatest(h) == CHOOSE e \in h : \A o \in h : o = e \/ EntryLess(o, e)

\* PriorityQueue.pop: heapq.heappop yields the least entry.  The heap is a set:
\* an entry (f, n) is pushed only when g[n] strictly decreases, so no entry is
\* ever pushed twice.
PriorityQueue_pop(h) == CHOOSE e \in h : \A o \in h : o = e \/ EntryLess(e, o)

\* The dict with no keys.
EmptyDict == [x \in {} |-> x]

\* A plausible slip: the blocked-set test is left out.
a_star_relax_ignores_blocked(st, current, n, goal, c, r, blk) ==
    IF ~(0 <= n[1] /\ n[1] < c /\ 0 <= n[2] /\ n[2] < r)
    THEN st
    ELSE LET tentative == st.g[current] + 1
             known == IF n \in DOMAIN st.g THEN st.g[n] ELSE NO_G
         IN  IF tentative < known
             THEN [g |-> (n :> tentative) @@ st.g,
                   came_from |-> (n :> current) @@ st.came_from,
                   openq |-> st.openq \cup {<<tentative + manhattan(n, goal), n>>}]
             ELSE st

\* The body of a_star's for loop for one neighbour n of current.
a_star_relax(st, current, n, goal, c, r, blk) ==
    IF ~(0 <= n[1] /\ n[1] < c /\ 0 <= n[2] /\ n[2] < r)
    THEN st
    ELSE IF n \in blk
    THEN st
    ELSE LET tentative == st.g[current] + 1
             known == IF n \in DOMAIN st.g THEN st.g[n] ELSE NO_G
         IN  IF tentative < known
             THEN [g |-> (n :> tentative) @@ st.g,
                   came_from |-> (n :> current) @@ st.came_from,
                   openq |-> st.openq \cup {<<tentative + manhattan(n, goal), n>>}]
             ELSE st

\* a_star's while loop, from the state st = [openq, came_from, g] to the state
\* at its exit (the queue is empty, or goal was popped).
RECURSIVE a_star_loop(_, _, _, _, _)
a_star_loop(st, goal, c, r, blk) ==
    IF st.openq = {}
    THEN st
    ELSE LET e == PriorityQueue_pop(st.openq)
             current == e[2]
             popped == [st EXCEPT !.openq = st.openq \ {e}]
         IN  IF current = goal
             THEN popped
             ELSE LET ns == neighbors_4(current[1], current[2])
                      s1 == a_star_relax(popped, current, ns[1], goal, c, r, blk)
                      s2 == a_star_relax(s1, current, ns[2], goal, c, r, blk)
                      s3 == a_star_relax(s2, current, ns[3], goal, c, r, blk)
                      s4 == a_star_relax(s3, current, ns[4], goal, c, r, blk)
                  IN  a_star_loop(s4, goal, c, r, blk)

\* The reconstruction loop: the nodes from goal back to (excluding) start.
RECURSIVE a_star_walk_back(_, _, _)
a_star_walk_back(node, came_from, start) ==
    IF node = start
    THEN <<>>
    ELSE LET prev == IF node \in DOMAIN came_from THEN came_from[node] ELSE start
         IN  <<node>> \o a_star_walk_back(prev, came_from, start)

\* list.reverse()
Reverse(s) == [k \in 1..Len(s) |-> s[Len(s) + 1 - k]]

\* A plausible slip: the "no path" test is left out.
a_star_result_unchecked(came_from, start, goal) ==
    Reverse(a_star_walk_back(goal, came_from, start))

\* What a_star returns after its while loop.
a_star_result(came_from, start, goal) ==
    IF goal \notin DOMAIN came_from /\ goal # start
    THEN <<>>
    ELSE Reverse(a_star_walk_back(goal, came_from, start))

a_star(start, goal, c, r, blk) ==
    IF start = goal
    THEN <<>>
    ELSE LET st == a_star_loop([openq |-> {<<0, start>>},
                                came_from |-> EmptyDict,
                                g |-> (start :> 0)], goal, c, r, blk)
         IN  a_star_result(st.came_from, start, goal)

NoAStarCall ==
    /\ as_start = <<0, 0>>
    /\ as_goal = <<0, 0>>
    /\ as_cols = GRID_COLS
    /\ as_rows = GRID_ROWS
    /\ as_blocked = {}
    /\ path = <<>>
    /\ as_pc = "idle"

\* The call path = a_star(start, goal, cols, rows, blocked).
AStarCall ==
    /\ as_pc = "call"
    /\ path' = a_star(as_start, as_goal, as_cols, as_rows, as_blocked)
    /\ as_pc' = "done"
    /\ lastOp' = <<"a_star">>
    /\ UNCHANGED <<as_start, as_goal, as_cols, as_rows, as_blocked>>
    /\ UNCHANGED <<turnVars, mapVars, bfsVars, callVars, combatVars, gameVars>>

(***************************************************************************)
(* Bounded reachability scan (app.py)                                      *)
(***************************************************************************)
\* The body of bfs_reachable's for loop for one neighbour nc of a cell at depth d;
\* st = [frontier, visited, reachable].
bfs_visit(st, nc, d, extra) ==
    IF ~in_bounds(nc) \/ ~passable(nc) \/ nc \in extra \/ nc \in st.visited
    THEN st
    ELSE [frontier |-> Append(st.frontier, <<nc, d + 1>>),
          visited |-> st.visited \cup {nc},
          reachable |-> st.reachable \cup {nc}]

\* A plausible slip: frontier.pop() for frontier.popleft(), a depth-first scan.
RECURSIVE bfs_loop_lifo(_, _, _)
bfs_loop_lifo(st, max_steps, extra) ==
    IF st.frontier = <<>>
    THEN st.reachable
    ELSE LET last == st.frontier[Len(st.frontier)]
             c == last[1]
             d == last[2]
             popped == [st EXCEPT !.frontier = SubSeq(st.frontier, 1, Len(st.frontier) - 1)]
         IN  IF d = max_steps
             THEN bfs_loop_lifo(popped, max_steps, extra)
             ELSE LET ns == neighbors_4(c[1], c[2])
                      s1 == bfs_visit(popped, ns[1], d, extra)
                      s2 == bfs_visit(s1, ns[2], d, extra)
                      s3 == bfs_visit(s2, ns[3], d, extra)
                      s4 == bfs_visit(s3, ns[4], d, extra)
                  IN  bfs_loop_lifo(s4, max_steps, extra)

\* bfs_reachable's while loop.
RECURSIVE bfs_loop(_, _, _)
bfs_loop(st, max_steps, extra) ==
    IF st.frontier = <<>>
    THEN st.reachable
    ELSE LET c == Head(st.frontier)[1]
             d == Head(st.frontier)[2]
             popped == [st EXCEPT !.frontier = Tail(st.frontier)]
         IN  IF d = max_steps
             THEN bfs_loop(popped, max_steps, extra)
             ELSE LET ns == neighbors_4(c[1], c[2])
                      s1 == bfs_visit(popped, ns[1], d, extra)
                      s2 == bfs_visit(s1, ns[2], d, extra)
                      s3 == bfs_visit(s2, ns[3], d, extra)
                      s4 == bfs_visit(s3, ns[4], d, extra)
                  IN  bfs_loop(s4, max_steps, extra)

\* bfs_reachable(origin, max_steps, tmap, extra_blocked), tmap being the TileMap
\* of the state.
bfs_reachable(origin, max_steps, extra) ==
    bfs_loop([frontier |-> <<<<origin, 0>>>>,
              visited |-> {origin},
              reachable |-> {}], max_steps, extra)

NoBfsCall ==
    /\ bfs_origin = <<0, 0>>
    /\ bfs_max = 0
    /\ bfs_extra = {}
    /\ reachable = {}
    /\ bfs_pc = "idle"

\* The call reachable = bfs_reachable(origin, max_steps, tmap, extra_blocked).
BfsCall ==
    /\ bfs_pc = "call"
    /\ reachable' = bfs_reachable(bfs_origin, bfs_max, bfs_extra)
    /\ bfs_pc' = "done"
    /\ lastOp' = <<"bfs_reachable">>
    /\ UNCHANGED <<bfs_origin, bfs_max, bfs_extra>>
    /\ UNCHANGED <<turnVars, mapVars, astarVars, callVars, combatVars, gameVars>>

\* A plausible slip: the second tier is drawn without taking the first one out.
draw_move_ranges_no_subtraction(origin, available_ap, extra, tiles_per_ap) ==
    IF available_ap <= 0
    THEN [blue |-> {}, yellow |-> {}]
    ELSE [blue |-> bfs_reachable(origin, tiles_per_ap, extra),
          yellow |-> IF available_ap >= 2
                     THEN bfs_reachable(origin, tiles_per_ap * 2, extra)
                     ELSE {}]

\* draw_move_ranges(surface, origin, tmap, available_ap, blocked) for an
\* origin that is a tile: the two sets of tiles it paints, {} for a tier it
\* does not paint.  tiles_per_ap is the setting S.MOVEMENT_TILES_PER_AP, an
\* argument here so that the tiers can be smaller than the map.
draw_move_ranges(origin, available_ap, extra, tiles_per_ap) ==
    IF available_ap <= 0
    THEN [blue |-> {}, yellow |-> {}]
    ELSE LET blue == bfs_reachable(origin, tiles_per_ap, extra)
         IN  [blue |-> blue,
              yellow |-> IF available_ap >= 2
                         THEN bfs_reachable(origin, tiles_per_ap * 2, extra) \ blue
                         ELSE {}]

(***************************************************************************)
(* Line of sight (engine/los.py)                                           *)
(***************************************************************************)
NoCall ==
    /\ call_args = <<>>
    /\ call_result = "none"

\* The while loop of bresenham_line from the cell (x, y) with error term err;
\* d holds dx, dy, sx, sy.  The cells yielded, in order.
RECURSIVE bresenham_loop(_, _, _, _, _)
bresenham_loop(x, y, err, d, b) ==
    IF x = b[1] /\ y = b[2]
    THEN <<<<x, y>>>>
    ELSE LET e2 == 2 * err
             step_x == e2 >= d.dy
             err_x == IF step_x THEN err + d.dy ELSE err
             x_n == IF step_x THEN x + d.sx ELSE x
             step_y == e2 <= d.dx
             err_y == IF step_y THEN err_x + d.dx ELSE err_x
             y_n == IF step_y THEN y + d.sy ELSE y
         IN <<<<x, y>>>> \o bresenham_loop(x_n, y_n, err_y, d, b)

bresenham_line(a, b) ==
    LET dx == Abs(b[1] - a[1])
        dy == -Abs(b[2] - a[2])
        sx == IF a[1] < b[1] THEN 1 ELSE -1
        sy == IF a[2] < b[2] THEN 1 ELSE -1
    IN bresenham_loop(a[1], a[2], dx + dy,
                      [dx |-> dx, dy |-> dy, sx |-> sx, sy |-> sy], b)

\* A variant of the scan that tests the blocked-set before the target.
RECURSIVE has_los_scan_target_blocks(_, _, _, _)
has_los_scan_target_blocks(line, k, b, blk) ==
    IF k > Len(line) THEN TRUE
    ELSE IF line[k] \in blk THEN FALSE
    ELSE IF line[k] = b THEN TRUE
    ELSE has_los_scan_target_blocks(line, k + 1, b, blk)

\* The for loop of has_los over the cells of the line from the k-th on.
RECURSIVE has_los_scan(_, _, _, _)
has_los_scan(line, k, b, blk) ==
    IF k > Len(line) THEN TRUE
    ELSE IF line[k] = b THEN TRUE
    ELSE IF line[k] \in blk THEN FALSE
    ELSE has_los_scan(line, k + 1, b, blk)

\* has_los skips the start cell (next(it, None)) and scans the rest.
has_los(a, b, blk) == has_los_scan(bresenham_line(a, b), 2, b, blk)

\* A call has_los(a, b, set(tmap.blocked)), as compute_visible_tiles,
\* calc_shot_chances and process_overwatch_triggers make it.
HasLosCall ==
    \E a \in GridCells(cols, rows), b \in GridCells(cols, rows) :
        /\ NoCall
        /\ call_args' = <<a, b>>
        /\ call_result' = has_los(a, b, blocked)
        /\ lastOp' = <<"has_los">>
        /\ UNCHANGED <<turnVars, mapVars, astarVars, bfsVars, combatVars, gameVars>>

\* The values of S.MOVEMENT_TILES_PER_AP the tiers are drawn with: the
\* setting itself and two smaller ones.
TierSizes == {1, 2, MOVEMENT_TILES_PER_AP}

\* The tiles of the other units and of the enemies, which main() adds to
\* tmap.blocked for the argument `blocked`.
RangeOccupied == {{}, {<<0, 1>>}, {<<2, 1>>}}

\* A call draw_move_ranges(screen, origin_for_ranges, tmap, available_ap,
\* blocked) of main(), with blocked = set(tmap.blocked) | occ.
DrawMoveRangesCall ==
    \E origin \in GridCells(cols, rows), available_ap \in 0..UNIT_AP_MAX,
       occ \in RangeOccupied, tiles_per_ap \in TierSizes :
        /\ NoCall
        /\ call_args' = <<origin, available_ap, blocked \cup occ, tiles_per_ap>>
        /\ call_result' = draw_move_ranges(origin, available_ap, blocked \cup occ,
                                           tiles_per_ap)
        /\ lastOp' = <<"draw_move_ranges">>
        /\ UNCHANGED <<turnVars, mapVars, astarVars, bfsVars, combatVars, gameVars>>

(***************************************************************************)
(* Units and enemies (engine/unit.py, engine/enemy.py)                     *)
(***************************************************************************)
NoCombat ==
    /\ squad = <<>>
    /\ enemies = <<>>
    /\ log = <<>>
    /\ raised = "none"

\* main() before any order and any enemy phase: pending_dest = {},
\* enemy_plans = None, enemy_steps_left = {}.
NoGame ==
    /\ pending_dest = <<>>
    /\ enemy_plans = [none |-> TRUE, paths |-> <<>>]
    /\ enemy_steps_left = <<>>

\* Unit.__init__: the fields the rules read (the pixel position is left out).
Unit(grid_pos) ==
    [grid |-> grid_pos, overwatch |-> FALSE, waypoints |-> <<>>,
     pending_ap_cost |-> 0, ap_max |-> UNIT_AP_MAX, ap |-> UNIT_AP_MAX,
     clip_max |-> CLIP_SIZE, ammo |-> CLIP_SIZE]

Enemy(grid_pos, hp) == [grid |-> grid_pos, hp |-> hp]

is_moving(u) == Len(u.waypoints) > 0

has_ammo(u) == u.ammo > 0

spend_ammo_unchecked(u) == [u EXCEPT !.ammo = @ - 1]

\* spend_ammo changes nothing at ammo <= 0.
spend_ammo(u) == IF u.ammo <= 0 THEN u ELSE [u EXCEPT !.ammo = @ - 1]

can_afford(u, ap_cost) == ap_cost > 0 /\ ap_cost <= u.ap

set_path_adds_cost(u, p, ap_cost) ==
    [u EXCEPT !.waypoints = p, !.pending_ap_cost = @ + ap_cost]

\* set_path: the waypoints are replaced by one per tile of the path (a tile
\* stands for its centre), the cost is stored; ap and grid are not touched.
set_path(u, p, ap_cost) ==
    [u EXCEPT !.waypoints = p, !.pending_ap_cost = ap_cost]

Unit_update_charges_each_waypoint(u, arrives) ==
    IF ~is_moving(u)
    THEN u
    ELSE LET moved == IF arrives
                      THEN [u EXCEPT !.waypoints = Tail(@)]
                      ELSE u
         IN  IF arrives /\ moved.pending_ap_cost > 0
             THEN [moved EXCEPT !.ap = @ - moved.pending_ap_cost]
             ELSE moved

Unit_update_tracks_grid(u, arrives) ==
    IF ~is_moving(u)
    THEN u
    ELSE LET moved == IF arrives
                      THEN [u EXCEPT !.grid = Head(u.waypoints),
                                     !.waypoints = Tail(@)]
                      ELSE u
         IN  IF ~is_moving(moved) /\ moved.pending_ap_cost > 0
             THEN [moved EXCEPT !.ap = @ - moved.pending_ap_cost,
                                !.pending_ap_cost = 0]
             ELSE moved

\* update(dt): nothing without waypoints.  Otherwise the unit steps towards
\* the first waypoint; arrives says whether this tick reaches it
\* (dist <= speed * dt), and then the waypoint is popped.  Once the queue is
\* empty the stored cost, if positive, is taken from ap and reset.
Unit_update(u, arrives) ==
    IF ~is_moving(u)
    THEN u
    ELSE LET moved == IF arrives
                      THEN [u EXCEPT !.waypoints = Tail(@)]
                      ELSE u
         IN  IF ~is_moving(moved) /\ moved.pending_ap_cost > 0
             THEN [moved EXCEPT !.ap = @ - moved.pending_ap_cost,
                                !.pending_ap_cost = 0]
             ELSE moved

done(u) == ~is_moving(u) /\ u.pending_ap_cost = 0

set_grid_immediate(u, grid_pos) == [u EXCEPT !.grid = grid_pos]

set_overwatch_refused_no_ammo_test(u, ap_cost) ==
    is_moving(u) \/ u.overwatch \/ u.ap < ap_cost

\* The test set_overwatch opens with: TRUE when it returns False.
set_overwatch_refused(u, ap_cost) ==
    is_moving(u) \/ u.overwatch \/ u.ap < ap_cost \/ ~has_ammo(u)

\* set_overwatch: self.ap -= ap_cost; self.overwatch = True; self.ap = 0.
set_overwatch(u, ap_cost) ==
    IF set_overwatch_refused(u, ap_cost)
    THEN u
    ELSE [[[u EXCEPT !.ap = @ - ap_cost] EXCEPT !.overwatch = TRUE]
             EXCEPT !.ap = 0]

clear_overwatch(u) == [u EXCEPT !.overwatch = FALSE]

reload_refused_full_clip_allowed(u, ap_cost) ==
    is_moving(u) \/ u.ap < ap_cost

\* The test reload opens with: TRUE when it returns False.
reload_refused(u, ap_cost) ==
    is_moving(u) \/ u.ap < ap_cost \/ u.ammo >= u.clip_max

reload(u, ap_cost) ==
    IF reload_refused(u, ap_cost)
    THEN u
    ELSE [u EXCEPT !.ap = @ - ap_cost, !.ammo = u.clip_max]

\* The index of the first enemy of the list standing on the tile, 0 for None.
get_enemy_at(en, tile) ==
    IF \E k \in 1..Len(en) : en[k].grid = tile
    THEN CHOOSE k \in 1..Len(en) :
             /\ en[k].grid = tile
             /\ \A m \in 1..(k - 1) : en[m].grid # tile
    ELSE 0

\* enemies.remove(target): the list without its k-th element.
list_remove(en, k) == [m \in 1..(Len(en) - 1) |-> IF m < k THEN en[m] ELSE en[m + 1]]

(***************************************************************************)
(* Cover and shots (app.py)                                                *)
(***************************************************************************)
\* facing_side(from_tile, to_tile): the side of to_tile that faces from_tile.
facing_side(from_tile, to_tile) ==
    LET dx == from_tile[1] - to_tile[1]
        dy == from_tile[2] - to_tile[2]
    IN IF Abs(dx) >= Abs(dy)
       THEN (IF dx > 0 THEN "right" ELSE "left")
       ELSE (IF dy > 0 THEN "down" ELSE "up")

\* The tile next to `tile` on a side, as cover_sides_from_obstacles names them.
neighbor_on_side(tile, side) ==
    CASE side = "up" -> <<tile[1], tile[2] - 1>>
      [] side = "right" -> <<tile[1] + 1, tile[2]>>
      [] side = "down" -> <<tile[1], tile[2] + 1>>
      [] OTHER -> <<tile[1] - 1, tile[2]>>

\* cover_full_on_facing(target, shooter, tmap): blk is tmap.blocked.
cover_full_on_facing(target, shooter, blk) ==
    LET dx == shooter[1] - target[1]
        dy == shooter[2] - target[2]
        side == IF Abs(dx) >= Abs(dy)
                THEN <<target[1] + (IF dx < 0 THEN 1 ELSE -1), target[2]>>
                ELSE <<target[1], target[2] + (IF dy < 0 THEN 1 ELSE -1)>>
    IN side \in blk

\* Python's None, returned where a tuple is returned otherwise.
None == <<>>

Max(a, b) == IF a >= b THEN a ELSE b

Min(a, b) == IF a <= b THEN a ELSE b

\* A variant of calc_shot_chances that leaves out the floor of the hit chance.
calc_shot_chances_no_floor(shooter, target, blk, aim_delta) ==
    IF ~has_los(shooter, target, blk)
    THEN None
    ELSE LET aim == BASE_AIM + aim_delta
             flanked == ~cover_full_on_facing(target, shooter, blk)
             defense == IF ~flanked THEN COVER_FULL_DEF ELSE 0
             hit == Min(HIT_CEIL, aim - defense)
             crit == Max(0, Min(100, BASE_CRIT + (IF flanked THEN FLANK_CRIT ELSE 0)))
         IN <<hit, crit>>

\* A variant of calc_shot_chances that does not look at the line of sight.
calc_shot_chances_ignores_los(shooter, target, blk, aim_delta) ==
    LET aim == BASE_AIM + aim_delta
        flanked == ~cover_full_on_facing(target, shooter, blk)
        defense == IF ~flanked THEN COVER_FULL_DEF ELSE 0
        hit == Max(HIT_FLOOR, Min(HIT_CEIL, aim - defense))
        crit == Max(0, Min(100, BASE_CRIT + (IF flanked THEN FLANK_CRIT ELSE 0)))
    IN <<hit, crit>>

\* calc_shot_chances(shooter, target, tmap, aim_delta): the tuple (hit, crit),
\* or None without line of sight; blk is tmap.blocked.
calc_shot_chances(shooter, target, blk, aim_delta) ==
    IF ~has_los(shooter, target, blk)
    THEN None
    ELSE LET aim == BASE_AIM + aim_delta
             flanked == ~cover_full_on_facing(target, shooter, blk)
             defense == IF ~flanked THEN COVER_FULL_DEF ELSE 0
             hit == Max(HIT_FLOOR, Min(HIT_CEIL, aim - defense))
             crit == Max(0, Min(100, BASE_CRIT + (IF flanked THEN FLANK_CRIT ELSE 0)))
         IN <<hit, crit>>

\* The advisory line resolve_shot logs for a manual shot with an empty clip.
OutOfAmmoLine == <<"Click: OUT OF AMMO (press R to reload)">>

\* Values of rng.randint(1, 100): the least (under every hit chance, which is
\* at least HIT_FLOOR) and the greatest (over every one, at most HIT_CEIL).
RollValues == {1, 100}

\* A variant of the tests that leaves out the first (the shooter is moving).
resolve_shot_guard_ignores_moving(shooter, t, tag) ==
    IF t = 0 THEN "no_enemy"
    ELSE IF tag = "Shot" /\ shooter.ap < SHOOT_AP_COST THEN "no_ap"
    ELSE IF tag = "Shot" /\ ~has_ammo(shooter) THEN "click"
    ELSE IF tag # "Shot" /\ ~has_ammo(shooter) THEN "no_ammo"
    ELSE "go"

\* The tests resolve_shot opens with (app.py:385-399), for the shooter, the
\* index t of the enemy on the target tile (0 for None) and the tag: the
\* return taken, or "go" when the shot goes on to calc_shot_chances.
resolve_shot_guard(shooter, t, tag) ==
    IF is_moving(shooter) THEN "moving"
    ELSE IF t = 0 THEN "no_enemy"
    ELSE IF tag = "Shot" /\ shooter.ap < SHOOT_AP_COST THEN "no_ap"
    ELSE IF tag = "Shot" /\ ~has_ammo(shooter) THEN "click"
    ELSE IF tag # "Shot" /\ ~has_ammo(shooter) THEN "no_ammo"
    ELSE "go"

\* resolve_shot(rng, shooter, target_tile, tmap, enemies, log, aim_delta, tag)
\* for shooter = squad[k]; roll, crit_roll and dmg_roll are what rng.randint
\* returns (crit_roll and dmg_roll are drawn on a hit only, and read on a hit
\* only).  The assignment `hit_ch, crit_ch, _ctag = chances` unpacks three
\* values: it raises ValueError when chances holds another number of them.
resolve_shot(k, target_tile, aim_delta, tag) ==
    LET shooter == squad[k]
        t == get_enemy_at(enemies, target_tile)
        guard == resolve_shot_guard(shooter, t, tag)
        chances == calc_shot_chances(shooter.grid, target_tile, blocked, aim_delta)
    IN  IF guard = "click"
        THEN /\ log' = Append(log, OutOfAmmoLine)
             /\ UNCHANGED <<squad, enemies, raised>>
        ELSE IF guard # "go"
        THEN UNCHANGED combatVars
        ELSE IF chances = None
        THEN UNCHANGED combatVars
        ELSE IF Len(chances) # 3
        THEN /\ raised' = "ValueError"
             /\ UNCHANGED <<squad, enemies, log>>
        ELSE \E roll \in RollValues, crit_roll \in RollValues,
                dmg_roll \in WEAPON_DMG_MIN..WEAPON_DMG_MAX :
             LET hit_ch == chances[1]
                 crit_ch == chances[2]
                 is_hit == roll <= hit_ch
                 is_crit == crit_roll <= crit_ch
                 dmg == dmg_roll + (IF is_crit THEN CRIT_BONUS_DMG ELSE 0)
                 hp == enemies[t].hp - dmg
                 kill == hp <= 0
             IN /\ enemies' = IF ~is_hit THEN enemies
                              ELSE IF kill THEN list_remove(enemies, t)
                              ELSE [enemies EXCEPT ![t].hp = hp]
                /\ log' = Append(log, IF is_hit
                                      THEN <<tag, target_tile, "HIT", dmg, is_crit, kill>>
                                      ELSE <<tag, target_tile, "MISS">>)
                /\ squad' = [squad EXCEPT ![k] =
                                [spend_ammo(shooter) EXCEPT
                                    !.ap = IF tag = "Shot" THEN 0 ELSE @]]
                /\ raised' = raised

\* Values of aim_delta: 0 (manual), -OVERWATCH_AIM_MALUS (reaction), and two
\* that push the aim past the floor and the ceiling.
AimDeltas == {-100, -OVERWATCH_AIM_MALUS, 0, 100}

\* The tiles a shot is aimed at: every enemy's tile and one without an enemy.
TargetTiles == {enemies[k].grid : k \in 1..Len(enemies)} \cup {squad[1].grid}

\* The cells a unit or an enemy stands on: those that are not walls.
StandingCells == GridCells(cols, rows) \ blocked

\* A call cover_full_on_facing(target, shooter, tmap).
CoverFullOnFacingCall ==
    \E target \in StandingCells, shooter \in StandingCells :
        /\ NoCall
        /\ call_args' = <<target, shooter>>
        /\ call_result' = cover_full_on_facing(target, shooter, blocked)
        /\ lastOp' = <<"cover_full_on_facing">>
        /\ UNCHANGED <<turnVars, mapVars, astarVars, bfsVars, combatVars, gameVars>>

\* A call calc_shot_chances(shooter, target, tmap, aim_delta).
CalcShotChancesCall ==
    \E shooter \in StandingCells, target \in StandingCells,
       aim_delta \in AimDeltas :
        /\ NoCall
        /\ call_args' = <<shooter, target, aim_delta>>
        /\ call_result' = calc_shot_chances(shooter, target, blocked, aim_delta)
        /\ lastOp' = <<"calc_shot_chances">>
        /\ UNCHANGED <<turnVars, mapVars, astarVars, bfsVars, combatVars, gameVars>>

\* The K_f handler of main(): resolve_shot(rng, sel, hov, ..., tag="Shot").
ManualFire ==
    /\ phase = "PLAYER"
    /\ raised = "none"
    /\ Len(log) < MaxLog
    /\ \E k \in 1..Len(squad), hov \in TargetTiles :
            /\ resolve_shot(k, hov, 0, "Shot")
            /\ lastOp' = <<"resolve_shot", "Shot", k, hov>>
    /\ UNCHANGED <<turnVars, mapVars, astarVars, bfsVars, callVars, gameVars>>

\* The call process_overwatch_triggers makes: resolve_shot(rng, u, mover.grid,
\* ..., aim_delta=-S.OVERWATCH_AIM_MALUS, tag="OVERWATCH").
ReactionFire ==
    /\ raised = "none"
    /\ Len(log) < MaxLog
    /\ \E k \in 1..Len(squad), tile \in TargetTiles :
            /\ resolve_shot(k, tile, -OVERWATCH_AIM_MALUS, "OVERWATCH")
            /\ lastOp' = <<"resolve_shot", "OVERWATCH", k, tile>>
    /\ UNCHANGED <<turnVars, mapVars, astarVars, bfsVars, callVars, gameVars>>

(***************************************************************************)
(* Reaction fire (app.py)                                                  *)
(***************************************************************************)
\* What the call resolve_shot(rng, u, tile, ..., tag="OVERWATCH") comes to
\* for its caller: it returns from one of its tests without a change, or it
\* reaches the unpack of the pair calc_shot_chances returned, which raises
\* ValueError (see resolve_shot).
reaction_shot(u, tile) ==
    IF resolve_shot_guard(u, get_enemy_at(enemies, tile), "OVERWATCH") # "go"
    THEN "returns"
    ELSE IF calc_shot_chances(u.grid, tile, blocked, -OVERWATCH_AIM_MALUS) = None
    THEN "returns"
    ELSE "ValueError"

\* process_overwatch_triggers(rng, squad, mover, tmap, enemies, log) from the
\* unit of index k on, for the mover enemies[m] and the squad sq as the
\* units before k left it.  A unit off overwatch or without line of sight is
\* passed over; for the others resolve_shot is called, and when it returns
\* the overwatch is cleared and the loop stops if the mover is gone.
RECURSIVE process_overwatch_triggers(_, _, _)
process_overwatch_triggers(sq, k, m) ==
    IF k > Len(sq)
    THEN [squad |-> sq, raises |-> "none"]
    ELSE IF ~sq[k].overwatch
    THEN process_overwatch_triggers(sq, k + 1, m)
    ELSE IF ~has_los(sq[k].grid, enemies[m].grid, blocked)
    THEN process_overwatch_triggers(sq, k + 1, m)
    ELSE IF reaction_shot(sq[k], enemies[m].grid) = "ValueError"
    THEN [squad |-> sq, raises |-> "ValueError"]
    ELSE LET cleared == [sq EXCEPT ![k] = clear_overwatch(@)]
         IN  IF get_enemy_at(enemies, enemies[m].grid) = 0
             THEN [squad |-> cleared, raises |-> "none"]
             ELSE process_overwatch_triggers(cleared, k + 1, m)

\* A call process_overwatch_triggers(rng, squad, mover, tmap, enemies, log).
ProcessOverwatchTriggers ==
    /\ raised = "none"
    /\ \E m \in 1..Len(enemies) :
            LET done_call == process_overwatch_triggers(squad, 1, m)
            IN  /\ squad' = done_call.squad
                /\ raised' = done_call.raises
                /\ lastOp' = <<"process_overwatch_triggers", m>>
    /\ UNCHANGED <<enemies, log>>
    /\ UNCHANGED <<turnVars, mapVars, astarVars, bfsVars, callVars, gameVars>>

(***************************************************************************)
(* One Unit under the calls of its methods (engine/unit.py)                *)
(***************************************************************************)
\* The paths handed to set_path: 1..MaxWaypoints tiles along a row.
UnitPaths == {[i \in 1..n |-> <<i, 0>>] : n \in 1..MaxWaypoints}

\* The costs the methods are called with.
ApCosts == 0..(UNIT_AP_MAX + 1)

\* sel.set_path(path, ap_cost), called as main() calls it: with a path that
\* is not empty and a cost can_afford accepts.
SetPath ==
    /\ raised = "none"
    /\ \E p \in UnitPaths, ap_cost \in ApCosts :
            /\ can_afford(squad[1], ap_cost)
            /\ squad' = [squad EXCEPT ![1] = set_path(@, p, ap_cost)]
            /\ lastOp' = <<"set_path", p, ap_cost>>
    /\ UNCHANGED <<enemies, log, raised>>
    /\ UNCHANGED <<turnVars, mapVars, astarVars, bfsVars, callVars, gameVars>>

\* u.update(dt); lastOp keeps whether the unit was moving when it was called.
UnitUpdate ==
    /\ raised = "none"
    /\ \E arrives \in BOOLEAN :
            /\ squad' = [squad EXCEPT ![1] = Unit_update(@, arrives)]
            /\ lastOp' = <<"update", arrives, is_moving(squad[1])>>
    /\ UNCHANGED <<enemies, log, raised>>
    /\ UNCHANGED <<turnVars, mapVars, astarVars, bfsVars, callVars, gameVars>>

\* u.set_grid_immediate(tile), called as main() calls it: on a unit that is
\* not moving.
SetGridImmediate ==
    /\ raised = "none"
    /\ ~is_moving(squad[1])
    /\ \E p \in UnitPaths :
            /\ squad' = [squad EXCEPT ![1] = set_grid_immediate(@, p[Len(p)])]
            /\ lastOp' = <<"set_grid_immediate", p[Len(p)]>>
    /\ UNCHANGED <<enemies, log, raised>>
    /\ UNCHANGED <<turnVars, mapVars, astarVars, bfsVars, callVars, gameVars>>

\* u.set_overwatch(ap_cost); the returned value is kept in lastOp.
SetOverwatch ==
    /\ raised = "none"
    /\ \E ap_cost \in ApCosts :
            /\ squad' = [squad EXCEPT ![1] = set_overwatch(@, ap_cost)]
            /\ lastOp' = <<"set_overwatch", ap_cost,
                           ~set_overwatch_refused(squad[1], ap_cost)>>
    /\ UNCHANGED <<enemies, log, raised>>
    /\ UNCHANGED <<turnVars, mapVars, astarVars, bfsVars, callVars, gameVars>>

\* u.clear_overwatch().
ClearOverwatch ==
    /\ raised = "none"
    /\ squad' = [squad EXCEPT ![1] = clear_overwatch(@)]
    /\ lastOp' = <<"clear_overwatch">>
    /\ UNCHANGED <<enemies, log, raised>>
    /\ UNCHANGED <<turnVars, mapVars, astarVars, bfsVars, callVars, gameVars>>

\* u.spend_ammo(); the returned value is kept in lastOp.
SpendAmmo ==
    /\ raised = "none"
    /\ squad' = [squad EXCEPT ![1] = spend_ammo(@)]
    /\ lastOp' = <<"spend_ammo", squad[1].ammo > 0>>
    /\ UNCHANGED <<enemies, log, raised>>
    /\ UNCHANGED <<turnVars, mapVars, astarVars, bfsVars, callVars, gameVars>>

\* u.reload(ap_cost); the returned value is kept in lastOp.
Reload ==
    /\ raised = "none"
    /\ \E ap_cost \in ApCosts :
            /\ squad' = [squad EXCEPT ![1] = reload(@, ap_cost)]
            /\ lastOp' = <<"reload", ap_cost, ~reload_refused(squad[1], ap_cost)>>
    /\ UNCHANGED <<enemies, log, raised>>
    /\ UNCHANGED <<turnVars, mapVars, astarVars, bfsVars, callVars, gameVars>>

(***************************************************************************)
(* The game loop of main() (app.py)                                        *)
(***************************************************************************)
\* The index of the first unit of the list standing on the tile, 0 for None.
get_unit_at(units, tile) ==
    IF \E k \in 1..Len(units) : units[k].grid = tile
    THEN CHOOSE k \in 1..Len(units) :
             /\ units[k].grid = tile
             /\ \A m \in 1..(k - 1) : units[m].grid # tile
    ELSE 0

\* occupied_tiles(units, exclude): exclude is an index, 0 for None.
occupied_tiles(units, exclude) ==
    {units[m].grid : m \in (1..Len(units)) \ {exclude}}

\* math.ceil(steps / S.MOVEMENT_TILES_PER_AP)
move_ap_cost(steps) ==
    (steps + MOVEMENT_TILES_PER_AP - 1) \div MOVEMENT_TILES_PER_AP

NO_BEST_LEN == 1000000000

\* The loop over the squad of plan_enemy_paths for the enemy of index e, from
\* the unit of index k on: the first path strictly shorter than the best so
\* far replaces it.
RECURSIVE plan_best_path(_, _, _, _)
plan_best_path(e, k, best_path, best_len) ==
    IF k > Len(squad)
    THEN best_path
    ELSE LET u == squad[k]
             occ_squad == {squad[m].grid : m \in 1..Len(squad)}
             occ_en == {enemies[m].grid : m \in 1..Len(enemies)}
             blk == (blocked \cup (occ_squad \ {u.grid}))
                        \cup (occ_en \ {enemies[e].grid})
             p == a_star(enemies[e].grid, u.grid, cols, rows, blk)
         IN  IF p # <<>> /\ Len(p) < best_len
             THEN plan_best_path(e, k + 1, p, Len(p))
             ELSE plan_best_path(e, k + 1, best_path, best_len)

\* plan_enemy_paths.  `plans[e] = best_path` uses the Enemy as a dict key;
\* Enemy is a dataclass with the generated __eq__ and no __hash__
\* (enemy.py:7-10), so hash(e) raises TypeError.  The function therefore
\* returns the dict, still empty, when no enemy has a path, and raises at the
\* first enemy that has one.
plan_enemy_paths ==
    IF \E e \in 1..Len(enemies) : plan_best_path(e, 1, <<>>, NO_BEST_LEN) # <<>>
    THEN [raises |-> "TypeError", plans |-> EmptyDict]
    ELSE [raises |-> "none", plans |-> EmptyDict]

\* The tiles clicked for an order.
OrderTiles == {<<0, 0>>, <<0, 1>>, <<1, 1>>, <<2, 0>>, <<2, 1>>}

\* The left-click order of main() for a tile that holds no unit
\* (app_v12.py:503-521; app.py carries the same lines commented out,
\* 673-693).  Which unit is selected is free: the keys 1-9 select any unit.
MoveOrder ==
    /\ phase = "PLAYER"
    /\ raised = "none"
    /\ \E k \in 1..Len(squad), tile \in OrderTiles :
            /\ get_unit_at(squad, tile) = 0
            /\ LET sel == squad[k]
                   occ == occupied_tiles(squad, k)
                              \cup {enemies[m].grid : m \in 1..Len(enemies)}
                   p == a_star(sel.grid, tile, cols, rows, blocked \cup occ)
                   ap_cost == move_ap_cost(Len(p))
               IN  IF /\ in_bounds(tile)
                      /\ passable(tile)
                      /\ get_enemy_at(enemies, tile) = 0
                      /\ tile \notin occ
                      /\ p # <<>>
                      /\ can_afford(sel, ap_cost)
                   THEN /\ squad' = [squad EXCEPT ![k] = set_path(@, p, ap_cost)]
                        /\ pending_dest' = [pending_dest EXCEPT ![k] = tile]
                   ELSE UNCHANGED <<squad, pending_dest>>
            /\ lastOp' = <<"move_order">>
    /\ UNCHANGED <<enemies, log, raised, enemy_plans, enemy_steps_left>>
    /\ UNCHANGED <<turnVars, mapVars, astarVars, bfsVars, callVars>>

\* The walls of the small map (the demo walls on the 20 x 20 one).
GameWalls == {<<1, 0>>}

\* The tiles the mouse is over when K_b is pressed: with a wall on it, the
\* walls cut the tiles from <<2, 0>> on off from the tiles of the squad.
WallTiles == {<<2, 1>>}

\* The tiles the mouse is over when K_n is pressed.
EnemyTiles == {<<2, 0>>}

\* The K_b handler of main(): a wall is toggled on a tile without unit or
\* enemy.
KeyToggleBlock ==
    /\ phase = "PLAYER"
    /\ raised = "none"
    /\ \E hov \in WallTiles :
            /\ IF /\ in_bounds(hov)
                  /\ get_unit_at(squad, hov) = 0
                  /\ get_enemy_at(enemies, hov) = 0
               THEN toggle_block(hov)
               ELSE UNCHANGED <<blocked, crates>>
            /\ lastOp' = <<"toggle_block">>
    /\ UNCHANGED <<cols, rows>>
    /\ UNCHANGED <<turnVars, astarVars, bfsVars, callVars, combatVars, gameVars>>

\* The K_n handler of main(): the enemy of the tile is removed, or a new one
\* is placed on it.
KeyToggleEnemy ==
    /\ phase = "PLAYER"
    /\ raised = "none"
    /\ \E hov \in EnemyTiles :
            /\ IF /\ in_bounds(hov)
                  /\ hov \notin blocked
                  /\ get_unit_at(squad, hov) = 0
               THEN IF get_enemy_at(enemies, hov) # 0
                    THEN enemies' = list_remove(enemies, get_enemy_at(enemies, hov))
                    ELSE enemies' = Append(enemies, Enemy(hov, ENEMY_DEFAULT_HP))
               ELSE UNCHANGED enemies
            /\ lastOp' = <<"toggle_enemy">>
    /\ UNCHANGED <<squad, log, raised>>
    /\ UNCHANGED <<turnVars, mapVars, astarVars, bfsVars, callVars, gameVars>>

\* The K_o handler of main().
KeyOverwatch ==
    /\ phase = "PLAYER"
    /\ raised = "none"
    /\ Len(log) < MaxLog
    /\ \E k \in 1..Len(squad) :
            /\ squad' = [squad EXCEPT ![k] = set_overwatch(@, OVERWATCH_AP_COST)]
            /\ log' = IF set_overwatch_refused(squad[k], OVERWATCH_AP_COST)
                      THEN log
                      ELSE Append(log, <<"set OVERWATCH", squad[k].grid>>)
            /\ lastOp' = <<"key_overwatch">>
    /\ UNCHANGED <<enemies, raised>>
    /\ UNCHANGED <<turnVars, mapVars, astarVars, bfsVars, callVars, gameVars>>

\* The K_r handler of main().
KeyReload ==
    /\ phase = "PLAYER"
    /\ raised = "none"
    /\ Len(log) < MaxLog
    /\ \E k \in 1..Len(squad) :
            /\ squad' = [squad EXCEPT ![k] = reload(@, RELOAD_AP_COST)]
            /\ log' = IF ~reload_refused(squad[k], RELOAD_AP_COST)
                      THEN Append(log, <<"Reloaded", squad[k].grid>>)
                      ELSE IF squad[k].ammo >= squad[k].clip_max
                           THEN Append(log, <<"Reload: clip already full">>)
                           ELSE IF squad[k].ap < RELOAD_AP_COST
                                THEN Append(log, <<"Reload: not enough AP">>)
                                ELSE log
            /\ lastOp' = <<"key_reload">>
    /\ UNCHANGED <<enemies, raised>>
    /\ UNCHANGED <<turnVars, mapVars, astarVars, bfsVars, callVars, gameVars>>

\* A plausible slip: the turn is ended whether or not a unit is moving.
KeyEndTurn_while_moving ==
    /\ phase = "PLAYER"
    /\ raised = "none"
    /\ LET planned == plan_enemy_paths
       IN  /\ end_player_turn
           /\ raised' = planned.raises
           /\ IF planned.raises = "none"
              THEN /\ enemy_plans' = [none |-> FALSE, paths |-> planned.plans]
                   /\ enemy_steps_left' = EmptyDict
              ELSE UNCHANGED <<enemy_plans, enemy_steps_left>>
    /\ lastOp' = <<"end_turn">>
    /\ UNCHANGED <<squad, enemies, log, pending_dest>>
    /\ UNCHANGED <<mapVars, astarVars, bfsVars, callVars>>

\* The K_RETURN / K_e handler of main(): nothing while a unit is moving;
\* otherwise the player turn ends and the enemies plan.  When
\* plan_enemy_paths raises, the assignments after it are not made.
KeyEndTurn ==
    /\ phase = "PLAYER"
    /\ raised = "none"
    /\ IF \A k \in 1..Len(squad) : ~is_moving(squad[k])
       THEN LET planned == plan_enemy_paths
            IN  /\ end_player_turn
                /\ raised' = planned.raises
                /\ IF planned.raises = "none"
                   THEN /\ enemy_plans' = [none |-> FALSE, paths |-> planned.plans]
                        /\ enemy_steps_left' = EmptyDict
                   ELSE UNCHANGED <<enemy_plans, enemy_steps_left>>
       ELSE UNCHANGED <<turnVars, raised, enemy_plans, enemy_steps_left>>
    /\ lastOp' = <<"end_turn">>
    /\ UNCHANGED <<squad, enemies, log, pending_dest>>
    /\ UNCHANGED <<mapVars, astarVars, bfsVars, callVars>>

\* The rest of one pass of the loop of main() (app.py:698-740).  Every unit
\* is updated (whether its tick reaches the waypoint is free) and, once it
\* is seen not moving, put on its ordered tile.  Then, in the ENEMY phase:
\* enemy_plans is the empty dict KeyEndTurn left.  With an enemy in the
\* roster the first dict lookup by that Enemy, `(enemy_plans or {}).get(en,
\* [])` when a step is due and `enemy_steps_left.get(en, 0)` otherwise,
\* raises TypeError.  With an empty roster no enemy is still moving and
\* tm.complete_enemy_turn() raises AttributeError.  The refresh of the units
\* that follows it is not reached.
Frame ==
    /\ raised = "none"
    /\ \E arrives \in [1..Len(squad) -> BOOLEAN] :
         LET updated == [k \in 1..Len(squad) |-> Unit_update(squad[k], arrives[k])]
             lands(k) == pending_dest[k] # None /\ ~is_moving(updated[k])
         IN  /\ squad' = [k \in 1..Len(squad) |->
                             IF lands(k)
                             THEN set_grid_immediate(updated[k], pending_dest[k])
                             ELSE updated[k]]
             /\ pending_dest' = [k \in 1..Len(squad) |->
                                    IF lands(k) THEN None ELSE pending_dest[k]]
    /\ IF phase = "ENEMY"
       THEN IF enemies # <<>>
            THEN /\ raised' = "TypeError"
                 /\ UNCHANGED turnVars
            ELSE /\ complete_enemy_turn
                 /\ raised' = "AttributeError"
       ELSE UNCHANGED <<turnVars, raised>>
    /\ lastOp' = <<"frame">>
    /\ UNCHANGED <<enemies, log, enemy_plans, enemy_steps_left>>
    /\ UNCHANGED <<mapVars, astarVars, bfsVars, callVars>>

vars ==
    <<turn, phase, enemy_timer, crashed, cols, rows, blocked, crates,
      as_start, as_goal, as_cols, as_rows, as_blocked, path, as_pc,
      bfs_origin, bfs_max, bfs_extra, reachable, bfs_pc,
      call_args, call_result, squad, enemies, log, raised,
      pending_dest, enemy_plans, enemy_steps_left, lastOp>>

(***************************************************************************)
(* Specifications                                                          *)
(***************************************************************************)
\* The TurnManager under every sequence of calls of its operations.
InitTurn ==
    /\ TurnManagerInit
    /\ TileMapInit(GRID_COLS, GRID_ROWS)
    /\ NoAStarCall
    /\ NoBfsCall
    /\ NoCall
    /\ NoCombat
    /\ NoGame
    /\ lastOp = <<"init">>

NextTurn == EndPlayerTurn \/ Update \/ CompleteEnemyTurn

SpecTurn == InitTurn /\ [][NextTurn]_vars

\* The TileMap of main() under every sequence of toggles.
InitMap ==
    /\ TurnManagerInit
    /\ TileMapInit(GRID_COLS, GRID_ROWS)
    /\ NoAStarCall
    /\ NoBfsCall
    /\ NoCall
    /\ NoCombat
    /\ NoGame
    /\ lastOp = <<"init">>

NextMap == ToggleBlock \/ ToggleCrate

SpecMap == InitMap /\ [][NextMap]_vars


\* One call of a_star on a small grid, for every start, goal and blocked-set.
InitAStar ==
    /\ TurnManagerInit
    /\ TileMapInit(GRID_COLS, GRID_ROWS)
    /\ NoBfsCall
    /\ as_cols = PathCols
    /\ as_rows = PathRows
    /\ as_start \in GridCells(PathCols, PathRows)
    /\ as_goal \in GridCells(PathCols, PathRows)
    /\ as_blocked \in CellSets(GridCells(PathCols, PathRows), MaxWalls)
    /\ path = <<>>
    /\ as_pc = "call"
    /\ NoCall
    /\ NoCombat
    /\ NoGame
    /\ lastOp = <<"init">>

NextAStar == AStarCall

SpecAStar == InitAStar /\ [][NextAStar]_vars


\* One call of bfs_reachable on a small TileMap, for every origin, step limit,
\* set of walls, and a choice of crates and of extra blocked cells.
CrateChoices == {{}, {<<1, 0>>, <<1, 1>>}}

ExtraChoices == SUBSET {<<0, 1>>, <<1, 1>>}

InitBfs ==
    /\ TurnManagerInit
    /\ NoAStarCall
    /\ cols = PathCols
    /\ rows = PathRows
    /\ blocked \in CellSets(GridCells(PathCols, PathRows), MaxMapWalls)
    /\ \E cr \in CrateChoices : crates = cr \ blocked
    /\ bfs_origin \in GridCells(PathCols, PathRows)
    /\ bfs_max \in 0..MaxSteps
    /\ bfs_extra \in ExtraChoices
    /\ reachable = {}
    /\ bfs_pc = "call"
    /\ NoCall
    /\ NoCombat
    /\ NoGame
    /\ lastOp = <<"init">>

NextBfs == BfsCall

SpecBfs == InitBfs /\ [][NextBfs]_vars

\* One call of draw_move_ranges on a small TileMap, for every origin, AP,
\* tier size and set of occupied tiles, and every set of walls in a column
\* that cuts the map in two when it is full.
RangeWalls == SUBSET {<<1, 0>>, <<1, 1>>, <<1, 2>>}

InitRanges ==
    /\ TurnManagerInit
    /\ NoAStarCall
    /\ NoBfsCall
    /\ cols = PathCols
    /\ rows = PathRows
    /\ blocked \in RangeWalls
    /\ crates = {}
    /\ NoCall
    /\ NoCombat
    /\ NoGame
    /\ lastOp = <<"init">>

NextRanges == DrawMoveRangesCall

SpecRanges == InitRanges /\ [][NextRanges]_vars

\* The scenario grid: 10 x 10 with no blocked tile, a_star and bfs_reachable
\* called from cells near the corner (0,0).
ScenarioCells == GridCells(4, 2)

InitScenario ==
    /\ TurnManagerInit
    /\ cols = 10
    /\ rows = 10
    /\ blocked = {}
    /\ crates = {}
    /\ as_cols = 10
    /\ as_rows = 10
    /\ as_blocked = {}
    /\ as_start \in ScenarioCells
    /\ as_goal \in ScenarioCells
    /\ path = <<>>
    /\ as_pc = "call"
    /\ bfs_origin = as_start
    /\ bfs_max \in 1..2
    /\ bfs_extra = {}
    /\ reachable = {}
    /\ bfs_pc = "call"
    /\ NoCall
    /\ NoCombat
    /\ NoGame
    /\ lastOp = <<"init">>

NextScenario == AStarCall \/ BfsCall

SpecScenario == InitScenario /\ [][NextScenario]_vars

\* has_los on a small TileMap, for every pair of cells, every set of walls and
\* at most one crate.
SingleCrates(cells) == {{}} \cup {{c} : c \in cells}

InitLos ==
    /\ TurnManagerInit
    /\ NoAStarCall
    /\ NoBfsCall
    /\ cols = LosCols
    /\ rows = LosRows
    /\ blocked \in CellSets(GridCells(LosCols, LosRows), MaxLosWalls)
    /\ crates \in SingleCrates(GridCells(LosCols, LosRows) \ blocked)
    /\ NoCall
    /\ NoCombat
    /\ NoGame
    /\ lastOp = <<"init">>

NextLos == HasLosCall

SpecLos == InitLos /\ [][NextLos]_vars

\* cover_full_on_facing and calc_shot_chances on a small TileMap, for every
\* shooter and target cell, every set of walls and at most one crate.
InitCover ==
    /\ TurnManagerInit
    /\ NoAStarCall
    /\ NoBfsCall
    /\ cols = CombatCols
    /\ rows = CombatRows
    /\ blocked \in CellSets(GridCells(CombatCols, CombatRows), MaxCombatWalls)
    /\ crates \in SingleCrates(GridCells(CombatCols, CombatRows) \ blocked)
    /\ NoCall
    /\ NoCombat
    /\ NoGame
    /\ lastOp = <<"init">>

NextCover == CoverFullOnFacingCall \/ CalcShotChancesCall

SpecCover == InitCover /\ [][NextCover]_vars

\* The states of a Unit its methods produce: ap and ammo anywhere in their
\* ranges, standing or with a waypoint left, on overwatch only as set_overwatch
\* leaves it (ap 0, ammo left, standing).
UnitStates(grid_pos) ==
    {[Unit(grid_pos) EXCEPT !.ap = a, !.ammo = m, !.waypoints = w, !.overwatch = o] :
        <<a, m, w, o>> \in {q \in (0..UNIT_AP_MAX) \X (0..CLIP_SIZE)
                                  \X {<<>>, <<grid_pos>>} \X BOOLEAN :
                               q[4] => (q[1] = 0 /\ q[2] > 0 /\ q[3] = <<>>)}}

\* resolve_shot for one unit and one enemy of ENEMY_DEFAULT_HP hit points on a
\* small TileMap, for every set of walls and every two free cells.
InitShot ==
    /\ TurnManagerInit
    /\ NoAStarCall
    /\ NoBfsCall
    /\ cols = CombatCols
    /\ rows = CombatRows
    /\ blocked \in CellSets(GridCells(CombatCols, CombatRows), MaxCombatWalls)
    /\ crates = {}
    /\ NoCall
    /\ \E ug \in GridCells(CombatCols, CombatRows) \ blocked :
         /\ squad \in {<<u>> : u \in UnitStates(ug)}
         /\ \E eg \in (GridCells(CombatCols, CombatRows) \ blocked) \ {ug} :
              enemies = <<Enemy(eg, ENEMY_DEFAULT_HP)>>
    /\ log = <<>>
    /\ raised = "none"
    /\ NoGame
    /\ lastOp = <<"init">>

NextShot == ManualFire \/ ReactionFire

SpecShot == InitShot /\ [][NextShot]_vars

\* One Unit, with ap and ammo anywhere in their ranges at the start, under
\* every sequence of calls of its methods.
InitUnit ==
    /\ TurnManagerInit
    /\ TileMapInit(GRID_COLS, GRID_ROWS)
    /\ NoAStarCall
    /\ NoBfsCall
    /\ NoCall
    /\ \E a \in 0..UNIT_AP_MAX, m \in 0..CLIP_SIZE :
            squad = <<[Unit(<<0, 0>>) EXCEPT !.ap = a, !.ammo = m]>>
    /\ enemies = <<>>
    /\ log = <<>>
    /\ raised = "none"
    /\ NoGame
    /\ lastOp = <<"init">>

NextUnit ==
    \/ SetPath
    \/ UnitUpdate
    \/ SetGridImmediate
    \/ SetOverwatch
    \/ ClearOverwatch
    \/ SpendAmmo
    \/ Reload

SpecUnit == InitUnit /\ [][NextUnit]_vars

\* The states of a unit when an enemy steps: on overwatch as set_overwatch
\* leaves it, or as at the start of its turn.
ReactionUnitStates(grid_pos) ==
    {u \in UnitStates(grid_pos) : u.overwatch} \cup {Unit(grid_pos)}

\* process_overwatch_triggers for two units on their tiles and one enemy of
\* ENEMY_DEFAULT_HP hit points on any other free tile of a small TileMap, for
\* every set of walls.
InitReaction ==
    /\ TurnManagerInit
    /\ NoAStarCall
    /\ NoBfsCall
    /\ cols = CombatCols
    /\ rows = CombatRows
    /\ blocked \in CellSets(GridCells(CombatCols, CombatRows) \ {<<0, 0>>, <<1, 1>>},
                            MaxCombatWalls)
    /\ crates = {}
    /\ NoCall
    /\ squad \in {<<u, v>> : u \in ReactionUnitStates(<<0, 0>>),
                              v \in ReactionUnitStates(<<1, 1>>)}
    /\ \E eg \in (GridCells(CombatCols, CombatRows) \ blocked) \ {<<0, 0>>, <<1, 1>>} :
            enemies = <<Enemy(eg, ENEMY_DEFAULT_HP)>>
    /\ log = <<>>
    /\ raised = "none"
    /\ NoGame
    /\ lastOp = <<"init">>

NextReaction == ProcessOverwatchTriggers

SpecReaction == InitReaction /\ [][NextReaction]_vars

\* The spawn tiles of the squad on the small map (S.UNIT_SPAWNS on the 20 x 20
\* one).
GameSpawns == <<<<0, 0>>, <<1, 1>>>>

\* main() from its first pass on, on a map of GameCols x 2 tiles with one
\* wall, with two units and no enemy.
InitGame ==
    /\ TurnManagerInit
    /\ NoAStarCall
    /\ NoBfsCall
    /\ cols = GameCols
    /\ rows = 2
    /\ blocked = GameWalls
    /\ crates = {}
    /\ NoCall
    /\ squad = [k \in 1..Len(GameSpawns) |-> Unit(GameSpawns[k])]
    /\ enemies = <<>>
    /\ log = <<>>
    /\ raised = "none"
    /\ pending_dest = [k \in 1..Len(GameSpawns) |-> None]
    /\ enemy_plans = [none |-> TRUE, paths |-> EmptyDict]
    /\ enemy_steps_left = EmptyDict
    /\ lastOp = <<"init">>

NextGame ==
    \/ MoveOrder
    \/ KeyToggleBlock
    \/ KeyToggleEnemy
    \/ ManualFire
    \/ KeyOverwatch
    \/ KeyReload
    \/ KeyEndTurn
    \/ Frame

SpecGame == InitGame /\ [][NextGame]_vars

\* The same game with the loop of main() running: `while running:` makes a
\* pass per clock tick (app.py:570-571), so a pass that can be made is made.
SpecGameLive == InitGame /\ [][NextGame]_vars /\ WF_vars(Frame)

(***************************************************************************)
(* Claims about the TurnManager (specification SpecTurn)                   *)
(***************************************************************************)
\* C1: end_player_turn() called in the PLAYER phase changes the phase to ENEMY
\* and leaves the turn counter unchanged; called in the ENEMY phase it changes
\* neither the phase nor the turn counter.
C1_EndPlayerTurn ==
    [][lastOp'[1] = "end_player_turn" =>
          /\ turn' = turn
          /\ (phase = "PLAYER" => phase' = "ENEMY")
          /\ (phase = "ENEMY" => phase' = "ENEMY")]_vars

\* end_player_turn() has been called in a later turn and the phase is ENEMY.
C1_Witness == lastOp[1] = "end_player_turn" /\ phase = "ENEMY" /\ turn > 1

\* C2: the turn counter starts at 1; complete_enemy_turn() in the ENEMY phase
\* moves the phase to PLAYER and adds exactly 1 to turn, and in the PLAYER phase
\* changes nothing; turn changes by exactly 1 on every ENEMY-to-PLAYER
\* transition and no other operation changes it.
C2_TurnCounter ==
    /\ turn = 1
    /\ [][/\ lastOp'[1] = "complete_enemy_turn" =>
                IF phase = "ENEMY"
                THEN phase' = "PLAYER" /\ turn' = turn + 1
                ELSE phase' = phase /\ turn' = turn
          /\ (phase = "ENEMY" /\ phase' = "PLAYER") => turn' = turn + 1
          /\ turn' # turn => lastOp'[1] = "complete_enemy_turn"]_vars

\* C3: the phase never changes from ENEMY to PLAYER by elapsed time alone: the
\* only step that returns the phase to PLAYER is the explicit completion signal
\* complete_enemy_turn().
C3_NoTimerTransition ==
    [][(phase = "ENEMY" /\ phase' = "PLAYER") =>
          lastOp'[1] = "complete_enemy_turn"]_vars

(***************************************************************************)
(* Claims about the TileMap (specification SpecMap)                        *)
(***************************************************************************)
\* C4: from the initial map, after any sequence of toggle_block and
\* toggle_crate calls no coordinate is in both blocked and crates; a
\* toggle_block that adds a wall removes any crate on that cell, and a
\* toggle_crate on a cell in blocked changes nothing.
C4_WallsAndCratesDisjoint ==
    /\ blocked \cap crates = {}
    /\ [][/\ blocked' \cap crates' = {}
          /\ (lastOp'[1] = "toggle_block" /\ in_bounds(lastOp'[2])
                /\ lastOp'[2] \notin blocked) =>
                (lastOp'[2] \in blocked' /\ lastOp'[2] \notin crates')
          /\ (lastOp'[1] = "toggle_crate" /\ lastOp'[2] \in blocked) =>
                (blocked' = blocked /\ crates' = crates)]_vars

\* A wall has just been placed on a cell that held a crate (the demo crate at
\* (6,8)), which is gone from crates.
C4_Witness ==
    /\ lastOp[1] = "toggle_block"
    /\ lastOp[2] = <<6, 8>>
    /\ lastOp[3]
    /\ <<6, 8>> \in blocked
    /\ <<6, 8>> \notin crates

\* The coordinates outside the grid, written without in_bounds.
OutsideGrid(c) == c[1] < 0 \/ c[1] >= cols \/ c[2] < 0 \/ c[2] >= rows

\* C32: toggle_block and toggle_crate on an out-of-bounds coordinate, and
\* toggle_crate on a coordinate in blocked, leave both blocked and crates
\* unchanged and signal no error; passable(c) is true iff c is not in
\* blocked, whether or not c holds a crate.
C32_IgnoredToggles ==
    /\ [](\A c \in ToggleCells \cup crates : passable(c) <=> c \notin blocked)
    /\ [](raised = "none" /\ ~crashed)
    /\ [][(/\ lastOp'[1] \in {"toggle_block", "toggle_crate"}
           /\ \/ OutsideGrid(lastOp'[2])
              \/ lastOp'[1] = "toggle_crate" /\ lastOp'[2] \in blocked) =>
                (blocked' = blocked /\ crates' = crates)]_vars

\* toggle_crate has just been called on a wall, on a map where a crate placed
\* by an earlier toggle stands on the passable cell (0,0).
C32_Witness ==
    /\ lastOp[1] = "toggle_crate"
    /\ lastOp[2] \in blocked
    /\ <<0, 0>> \in crates
    /\ passable(<<0, 0>>)

\* C40: for an in-bounds coordinate, toggle_crate called twice in a row
\* restores blocked and crates exactly; toggle_block called twice in a row
\* restores blocked exactly, and restores crates exactly when the cell held no
\* crate before the first call (a crate evicted by the wall is not put back).
\* lastOp[4] and lastOp[5] are blocked and crates before the first call.
C40_DoubleToggle ==
    [][(/\ lastOp'[1] \in {"toggle_block", "toggle_crate"}
        /\ lastOp[1] = lastOp'[1]
        /\ lastOp[2] = lastOp'[2]
        /\ ~OutsideGrid(lastOp'[2])) =>
            /\ blocked' = lastOp[4]
            /\ lastOp'[1] = "toggle_crate" => crates' = lastOp[5]
            /\ lastOp'[1] = "toggle_block" =>
                  /\ crates' = lastOp[5] \ {lastOp'[2]}
                  /\ (crates' = lastOp[5]) <=> (lastOp'[2] \notin lastOp[5])]_vars

\* toggle_block has been called twice in a row on the demo crate's cell
\* (6,8): the wall is gone again and so is the crate.
C40_Witness ==
    /\ lastOp[1] = "toggle_block"
    /\ lastOp[2] = <<6, 8>>
    /\ <<6, 8>> \in lastOp[4]
    /\ <<6, 8>> \notin blocked
    /\ <<6, 8>> \notin crates
    /\ blocked = DemoBlocked

(***************************************************************************)
(* An independent account of 4-directional distance: breadth-first level   *)
(* sets over the free cells, the start being free by definition.           *)
(***************************************************************************)
Adjacent4(a, b) ==
    \/ a[1] = b[1] /\ (a[2] = b[2] + 1 \/ b[2] = a[2] + 1)
    \/ a[2] = b[2] /\ (a[1] = b[1] + 1 \/ b[1] = a[1] + 1)

NextLevel(frontier, seen, free) ==
    {n \in free \ seen : \E c \in frontier : Adjacent4(c, n)}

\* The distance from the cells of frontier (at distance d) to target, -1 if none.
RECURSIVE LevelDistance(_, _, _, _, _)
LevelDistance(frontier, seen, target, d, free) ==
    IF target \in frontier
    THEN d
    ELSE LET nxt == NextLevel(frontier, seen, free)
         IN  IF nxt = {}
             THEN -1
             ELSE LevelDistance(nxt, seen \cup nxt, target, d + 1, free)

ShortestDistance(start, goal, free) == LevelDistance({start}, {start}, goal, 0, free)

\* The cells within k steps of the cells seen so far.
RECURSIVE Within(_, _, _, _)
Within(frontier, seen, k, free) ==
    IF k <= 0 \/ frontier = {}
    THEN seen
    ELSE LET nxt == NextLevel(frontier, seen, free)
         IN  Within(nxt, seen \cup nxt, k - 1, free)

\* The cells a_star may enter.
AStarFree == GridCells(as_cols, as_rows) \ as_blocked

\* The cells bfs_reachable may enter: in bounds, no wall, not extra-blocked.
BfsFree == (GridCells(cols, rows) \ blocked) \ bfs_extra

(***************************************************************************)
(* Claims about a_star (specification SpecAStar)                           *)
(***************************************************************************)
\* C5: for every start, goal (start # goal) and blocked-set on the grid for
\* which a 4-directional path exists, the path a_star returns has the length of
\* the true shortest-path distance, computed by an independent breadth-first
\* search.
C5_PathIsShortest ==
    (as_pc = "done" /\ as_start # as_goal) =>
        LET d == ShortestDistance(as_start, as_goal, AStarFree)
        IN  d >= 1 => Len(path) = d

\* a_star returned a path that had to go around walls.
C5_Witness ==
    /\ as_pc = "done"
    /\ Len(path) >= 4
    /\ Len(path) > manhattan(as_start, as_goal)

\* C6: every non-empty path a_star returns is sound: its first cell is
\* 4-adjacent to start, consecutive cells are 4-adjacent, its last cell is goal,
\* start is not in it, every cell is in bounds and not in the blocked-set, and no
\* cell appears twice.
C6_PathIsSound ==
    (as_pc = "done" /\ path # <<>>) =>
        /\ Adjacent4(as_start, path[1])
        /\ \A k \in 1..(Len(path) - 1) : Adjacent4(path[k], path[k + 1])
        /\ path[Len(path)] = as_goal
        /\ \A k \in 1..Len(path) :
              /\ path[k] # as_start
              /\ path[k] \in GridCells(as_cols, as_rows)
              /\ path[k] \notin as_blocked
        /\ \A k, m \in 1..Len(path) : path[k] = path[m] => k = m

\* a_star returned a path of several cells on a grid with walls.
C6_Witness ==
    /\ as_pc = "done"
    /\ Len(path) >= 3
    /\ Cardinality(as_blocked) >= 2

\* C7: a_star returns the empty sequence exactly when start = goal or no
\* 4-directional path from start to goal avoids the blocked-set (a blocked goal
\* included); a non-empty result is never partial: it runs from a neighbour of
\* start to goal.
C7_EmptyIffNoPath ==
    as_pc = "done" =>
        /\ path = <<>> <=>
              (as_start = as_goal
                 \/ ShortestDistance(as_start, as_goal, AStarFree) = -1)
        /\ path # <<>> =>
              (Adjacent4(as_start, path[1]) /\ path[Len(path)] = as_goal)

\* a_star returned the empty sequence for a goal that is not blocked itself but
\* walled off from start.
C7_Witness ==
    /\ as_pc = "done"
    /\ path = <<>>
    /\ as_start # as_goal
    /\ as_goal \notin as_blocked
    /\ as_start \notin as_blocked

(***************************************************************************)
(* Claims about bfs_reachable (specification SpecBfs)                      *)
(***************************************************************************)
\* C8: for max_steps >= 0, bfs_reachable returns exactly the in-bounds cells
\* other than origin, in neither blocked nor extra_blocked, whose shortest
\* 4-directional distance from origin through such cells is between 1 and
\* max_steps; crates do not affect the result and origin is never in it.
C8_ReachableIsBall ==
    bfs_pc = "done" =>
        /\ reachable = Within({bfs_origin}, {bfs_origin}, bfs_max, BfsFree) \ {bfs_origin}
        /\ bfs_origin \notin reachable

\* bfs_reachable returned a set that holds a crate cell, on a map with a wall
\* and an extra blocked cell, and leaves out a free cell that is too far.
C8_Witness ==
    /\ bfs_pc = "done"
    /\ reachable \cap crates # {}
    /\ blocked # {}
    /\ bfs_extra # {}
    /\ bfs_max >= 2
    /\ \E c \in BfsFree \ {bfs_origin} :
          /\ c \notin reachable
          /\ ShortestDistance(bfs_origin, c, BfsFree) > bfs_max

\* C9: for the same map, origin and extra blocked-set, bfs_reachable(origin, N)
\* is a subset of bfs_reachable(origin, N + 1), for every N >= 0.
C9_ReachableMonotone ==
    bfs_pc = "done" =>
        reachable \subseteq bfs_reachable(bfs_origin, bfs_max + 1, bfs_extra)

\* The scan with one more step found strictly more cells.
C9_Witness ==
    /\ bfs_pc = "done"
    /\ bfs_max >= 1
    /\ reachable # {}
    /\ reachable # bfs_reachable(bfs_origin, bfs_max + 1, bfs_extra)

(***************************************************************************)
(* The 10 x 10 scenario (specification SpecScenario)                       *)
(***************************************************************************)
\* C10 as stated: on a 10 x 10 grid with no blocked tile, a_star from (0,0) to
\* (3,0) returns [(1,0),(2,0),(3,0)], and bfs_reachable((0,0), 2, ...) holds
\* exactly the 12 coordinates at Manhattan distance 1 or 2 from the origin.
C10_Original ==
    /\ (as_pc = "done" /\ as_start = <<0, 0>> /\ as_goal = <<3, 0>>) =>
          path = <<<<1, 0>>, <<2, 0>>, <<3, 0>>>>
    /\ (bfs_pc = "done" /\ bfs_origin = <<0, 0>> /\ bfs_max = 2) =>
          /\ Cardinality(reachable) = 12
          /\ reachable = {c \in (-2..2) \X (-2..2) :
                             Abs(c[1]) + Abs(c[2]) \in {1, 2}}

\* C10 as amended: on a 10 x 10 grid with no blocked tile, a_star from (0,0) to
\* (3,0) returns [(1,0),(2,0),(3,0)], and bfs_reachable((0,0), 2, ...) holds
\* exactly the 5 in-bounds coordinates at Manhattan distance 1 or 2 from the
\* origin: (1,0), (0,1), (2,0), (1,1), (0,2).
C10_Scenario ==
    /\ (as_pc = "done" /\ as_start = <<0, 0>> /\ as_goal = <<3, 0>>) =>
          path = <<<<1, 0>>, <<2, 0>>, <<3, 0>>>>
    /\ (bfs_pc = "done" /\ bfs_origin = <<0, 0>> /\ bfs_max = 2) =>
          /\ Cardinality(reachable) = 5
          /\ reachable = {<<1, 0>>, <<0, 1>>, <<2, 0>>, <<1, 1>>, <<0, 2>>}

\* Both calls of the scenario have returned.
C10_Witness ==
    /\ as_pc = "done" /\ as_start = <<0, 0>> /\ as_goal = <<3, 0>>
    /\ bfs_pc = "done" /\ bfs_origin = <<0, 0>> /\ bfs_max = 2
    /\ cols = 10 /\ rows = 10 /\ blocked = {}
    /\ Len(path) = 3

(***************************************************************************)
(* Claims about line of sight (specification SpecLos)                      *)
(***************************************************************************)
\* The cells of a rasterized line strictly between its two ends.
LineBetween(line) == {line[k] : k \in 2..(Len(line) - 1)}

\* C11: has_los(a, b, blocked) is true iff no cell of the rasterized line
\* strictly between a and b is in the blocked-set; the line starts at a and
\* ends at b, so a blocked end never hides the target; has_los(a, a, ...) is
\* true; crates, which are not in the blocked-set, never occlude.
C11_LosIffClearBetween ==
    lastOp[1] = "has_los" =>
        LET a == call_args[1]
            b == call_args[2]
            line == bresenham_line(a, b)
        IN /\ line[1] = a
           /\ line[Len(line)] = b
           /\ call_result = (LineBetween(line) \cap blocked = {})
           /\ (a = b => call_result)

\* A call that sees a walled target across a crate.
C11_Witness ==
    /\ lastOp[1] = "has_los"
    /\ call_result = TRUE
    /\ call_args[2] \in blocked
    /\ LineBetween(bresenham_line(call_args[1], call_args[2])) \cap crates # {}

\* C12: line of sight is symmetric: has_los(a, b, blocked) equals
\* has_los(b, a, blocked) for every pair of cells and every blocked-set.
C12_LosSymmetric ==
    lastOp[1] = "has_los" =>
        call_result = has_los(call_args[2], call_args[1], blocked)

\* C13: with a single wall at (2,0), has_los((1,0), (3,0)) is false and
\* has_los((1,1), (3,0)) is true.
C13_WallScenario ==
    (lastOp[1] = "has_los" /\ blocked = {<<2, 0>>}) =>
        /\ (call_args = <<<<1, 0>>, <<3, 0>>>> => call_result = FALSE)
        /\ (call_args = <<<<1, 1>>, <<3, 0>>>> => call_result = TRUE)

(***************************************************************************)
(* Claims about cover and shot chances (specification SpecCover)           *)
(***************************************************************************)
\* The neighbour of the target on the side that faces the shooter.
FacingTile(target, shooter) == neighbor_on_side(target, facing_side(shooter, target))

\* C14: the cover tile consulted for a shot is the target's neighbour on the
\* side pointing from the target toward the shooter along the axis with the
\* larger absolute delta (ties go to the horizontal axis), and the target is
\* flanked iff that side has no cover: with a wall north of the target, a
\* shooter due north is not flanked and a shooter due south is.
C14_FacingCover ==
    (lastOp[1] = "cover_full_on_facing" /\ call_args[1] # call_args[2]) =>
        call_result = (FacingTile(call_args[1], call_args[2]) \in blocked)

\* C15: with line of sight, calc_shot_chances takes defense COVER_FULL_DEF when
\* the facing-side neighbour is in blocked, COVER_HALF_DEF when it is in
\* crates and 0 otherwise; hit% is BASE_AIM + aim_delta - defense clamped to
\* [HIT_FLOOR, HIT_CEIL]; the flank crit bonus is added only with no cover.
C15_DefenseByCover ==
    (/\ lastOp[1] = "calc_shot_chances"
     /\ call_args[1] # call_args[2]
     /\ has_los(call_args[1], call_args[2], blocked)) =>
        LET n == FacingTile(call_args[2], call_args[1])
            defense == IF n \in blocked THEN COVER_FULL_DEF
                       ELSE IF n \in crates THEN COVER_HALF_DEF
                       ELSE 0
            bonus == IF n \notin blocked /\ n \notin crates THEN FLANK_CRIT ELSE 0
        IN call_result =
               <<Max(HIT_FLOOR, Min(HIT_CEIL, BASE_AIM + call_args[3] - defense)),
                 Max(0, Min(100, BASE_CRIT + bonus))>>

\* C16: whenever calc_shot_chances returns odds, for every aim_delta, hit% lies
\* in [HIT_FLOOR, HIT_CEIL] = [5, 95] and crit% in [0, 100].
C16_ChancesClamped ==
    (lastOp[1] = "calc_shot_chances" /\ call_result # None) =>
        /\ HIT_FLOOR <= call_result[1] /\ call_result[1] <= HIT_CEIL
        /\ 0 <= call_result[2] /\ call_result[2] <= 100
        /\ HIT_FLOOR = 5 /\ HIT_CEIL = 95

\* A call whose aim falls under the floor and one whose aim passes the ceiling
\* are both made; this is the first.
C16_Witness ==
    /\ lastOp[1] = "calc_shot_chances"
    /\ call_result # None
    /\ BASE_AIM + call_args[3] < HIT_FLOOR
    /\ call_result[1] = HIT_FLOOR

(***************************************************************************)
(* Claims about resolve_shot (specification SpecShot).  In a step of       *)
(* resolve_shot, lastOp' holds the tag, the shooter's index and the tile.   *)
(***************************************************************************)
\* The shot gets past the tests resolve_shot opens with.
ShotPreconditions(u, tile, tag) ==
    /\ ~is_moving(u)
    /\ get_enemy_at(enemies, tile) # 0
    /\ u.ammo > 0
    /\ (tag = "Shot" => u.ap >= SHOOT_AP_COST)

\* The aim_delta handed to resolve_shot with each tag.
AimDeltaOf(tag) == IF tag = "Shot" THEN 0 ELSE -OVERWATCH_AIM_MALUS

\* C17 as stated: without line of sight calc_shot_chances returns the sentinel
\* and resolve_shot changes nothing: enemy HP, roster, ammo, AP and the log.
C17_Original ==
    [][(lastOp'[1] = "resolve_shot"
        /\ ~has_los(squad[lastOp'[3]].grid, lastOp'[4], blocked)) =>
            /\ calc_shot_chances(squad[lastOp'[3]].grid, lastOp'[4], blocked,
                                 AimDeltaOf(lastOp'[2])) = None
            /\ UNCHANGED <<squad, enemies, log>>]_vars

\* C17, amended: without line of sight calc_shot_chances returns the sentinel
\* None, which no pair of odds equals, and resolve_shot leaves enemy HP, the
\* roster, ammo and AP unchanged and raises nothing; the log is unchanged too,
\* except that a manual shot by a standing unit with AP and an empty clip at
\* an enemy's tile appends the out-of-ammo line (that test comes before the
\* line-of-sight test).
C17_NoLosNoShot ==
    [][(lastOp'[1] = "resolve_shot"
        /\ ~has_los(squad[lastOp'[3]].grid, lastOp'[4], blocked)) =>
            LET u == squad[lastOp'[3]]
                tile == lastOp'[4]
                tag == lastOp'[2]
                click == /\ tag = "Shot"
                         /\ ~is_moving(u)
                         /\ get_enemy_at(enemies, tile) # 0
                         /\ u.ap >= SHOOT_AP_COST
                         /\ u.ammo = 0
            IN /\ calc_shot_chances(u.grid, tile, blocked, AimDeltaOf(tag)) = None
               /\ Len(None) # 2
               /\ UNCHANGED <<squad, enemies, raised>>
               /\ log' = IF click THEN Append(log, OutOfAmmoLine) ELSE log]_vars

\* A shot that passes every other test and is stopped by the missing line of
\* sight alone.
C17_Witness ==
    /\ lastOp[1] = "resolve_shot"
    /\ ~has_los(squad[lastOp[3]].grid, lastOp[4], blocked)
    /\ ShotPreconditions(squad[lastOp[3]], lastOp[4], lastOp[2])
    /\ log = <<>>
    /\ raised = "none"

\* C18: resolve_shot changes no game state (enemy HP, roster, shooter ammo,
\* shooter AP; nor does it raise) when the shooter is moving, when no enemy
\* stands on the target tile, for manual fire when the AP is under the shoot
\* cost or the ammo is 0, and for reaction fire when the ammo is 0.
C18_NoOpCases ==
    [][(lastOp'[1] = "resolve_shot"
        /\ LET u == squad[lastOp'[3]]
           IN \/ is_moving(u)
              \/ get_enemy_at(enemies, lastOp'[4]) = 0
              \/ (lastOp'[2] = "Shot" /\ (u.ap < SHOOT_AP_COST \/ u.ammo = 0))
              \/ (lastOp'[2] = "OVERWATCH" /\ u.ammo = 0)) =>
            UNCHANGED <<squad, enemies, raised>>]_vars

\* A shot at an enemy in sight by a unit with AP and ammo that is moving.
C18_Witness ==
    /\ lastOp[1] = "resolve_shot"
    /\ LET u == squad[lastOp[3]]
       IN /\ is_moving(u)
          /\ u.ammo > 0
          /\ u.ap >= SHOOT_AP_COST
          /\ get_enemy_at(enemies, lastOp[4]) # 0
          /\ has_los(u.grid, lastOp[4], blocked)
    /\ raised = "none"

\* C19: every shot that resolves (the preconditions hold and there is line of
\* sight), hit or miss, takes exactly 1 from the shooter's ammo and appends
\* exactly one log entry; a manual shot sets the shooter's AP to 0, a reaction
\* shot leaves the AP unchanged.
C19_ResolvedShotSpends ==
    [][(lastOp'[1] = "resolve_shot"
        /\ ShotPreconditions(squad[lastOp'[3]], lastOp'[4], lastOp'[2])
        /\ has_los(squad[lastOp'[3]].grid, lastOp'[4], blocked)) =>
            LET k == lastOp'[3]
            IN /\ squad'[k].ammo = squad[k].ammo - 1
               /\ Len(log') = Len(log) + 1
               /\ (lastOp'[2] = "Shot" => squad'[k].ap = 0)
               /\ (lastOp'[2] = "OVERWATCH" => squad'[k].ap = squad[k].ap)]_vars

\* The damages of a hit: a roll of the weapon, with the bonus of a crit or not.
Damages ==
    {d + c : d \in WEAPON_DMG_MIN..WEAPON_DMG_MAX, c \in {0, CRIT_BONUS_DMG}}

\* C20: a resolved shot is a miss, which changes neither HP nor the roster, or
\* a hit: one whose damage is at least the target's HP removes the target from
\* the roster and logs a kill, one with less damage only lowers the HP; either
\* way it is logged, and every enemy of the roster has HP >= 1.
C20_KillAtZero ==
    /\ \A e \in 1..Len(enemies) : enemies[e].hp >= 1
    /\ [][(lastOp'[1] = "resolve_shot"
           /\ ShotPreconditions(squad[lastOp'[3]], lastOp'[4], lastOp'[2])
           /\ has_los(squad[lastOp'[3]].grid, lastOp'[4], blocked)) =>
               LET t == get_enemy_at(enemies, lastOp'[4])
                   entry == log'[Len(log')]
               IN /\ Len(log') = Len(log) + 1
                  /\ \/ (entry[3] = "MISS" /\ enemies' = enemies)
                     \/ \E dmg \in Damages :
                          /\ entry[3] = "HIT"
                          /\ entry[4] = dmg
                          /\ IF dmg >= enemies[t].hp
                             THEN entry[6] /\ enemies' = list_remove(enemies, t)
                             ELSE /\ ~entry[6]
                                  /\ enemies' = [enemies EXCEPT ![t].hp = @ - dmg]
                  /\ \A e \in 1..Len(enemies') : enemies'[e].hp >= 1]_vars

(***************************************************************************)
(* Claims about one Unit (specification SpecUnit)                          *)
(***************************************************************************)
\* C22: the ammo of a unit is always between 0 and clip_max; it goes down only
\* by spend_ammo (the call a resolved shot makes), by exactly 1, and
\* spend_ammo at 0 changes nothing; it goes up only by a reload that
\* succeeds, and then to exactly clip_max.
C22_AmmoInClip ==
    /\ [](\A k \in 1..Len(squad) :
             squad[k].ammo >= 0 /\ squad[k].ammo <= squad[k].clip_max)
    /\ [][\A k \in 1..Len(squad) :
             LET before == squad[k].ammo
                 after == squad'[k].ammo
             IN  /\ after < before =>
                        lastOp'[1] = "spend_ammo" /\ after = before - 1
                 /\ after > before =>
                        /\ lastOp'[1] = "reload"
                        /\ lastOp'[3]
                        /\ after = squad[k].clip_max
                 /\ (lastOp'[1] = "spend_ammo" /\ before = 0) =>
                        squad'[k] = squad[k]]_vars

\* spend_ammo was called on an empty clip, and the clip is still empty.
C22_Witness ==
    /\ lastOp[1] = "spend_ammo"
    /\ ~lastOp[2]
    /\ squad[1].ammo = 0

\* C23: a unit is moving exactly when its waypoint queue is not empty;
\* set_path with a path that is not empty leaves it moving with its ap
\* unchanged; a tick that leaves waypoints in the queue changes neither ap
\* nor the stored cost; the tick that empties the queue takes the stored cost
\* from ap and resets it to 0, so that no later tick takes it again.
C23_MoveCostOnArrival ==
    /\ [](\A k \in 1..Len(squad) :
             is_moving(squad[k]) <=> Len(squad[k].waypoints) > 0)
    /\ [][LET u == squad[1]
              v == squad'[1]
          IN  /\ lastOp'[1] = "set_path" =>
                    /\ Len(v.waypoints) > 0
                    /\ v.ap = u.ap
              /\ lastOp'[1] = "update" =>
                    IF Len(u.waypoints) > 0 /\ Len(v.waypoints) = 0
                    THEN /\ v.ap = u.ap - u.pending_ap_cost
                         /\ v.pending_ap_cost = 0
                    ELSE /\ v.ap = u.ap
                         /\ v.pending_ap_cost = u.pending_ap_cost
                         /\ Len(u.waypoints) = 0 => v = u]_vars

\* A tick emptied the queue of a unit that had stored the cost of all its ap.
C23_Witness ==
    /\ lastOp[1] = "update"
    /\ lastOp[3]
    /\ Len(squad[1].waypoints) = 0
    /\ squad[1].pending_ap_cost = 0
    /\ squad[1].ap = 0

\* C25: set_overwatch(cost) succeeds exactly when the unit is not moving, is
\* not on overwatch, has ap >= cost and has ammo; when it succeeds the unit
\* is on overwatch with ap 0; when it fails the unit is unchanged.
C25_OverwatchContract ==
    [][lastOp'[1] = "set_overwatch" =>
          LET u == squad[1]
              v == squad'[1]
              cost == lastOp'[2]
              ok == lastOp'[3]
          IN  /\ ok <=> /\ Len(u.waypoints) = 0
                         /\ ~u.overwatch
                         /\ u.ap >= cost
                         /\ u.ammo > 0
              /\ ok => v = [u EXCEPT !.overwatch = TRUE, !.ap = 0]
              /\ ~ok => v = u]_vars

\* set_overwatch succeeded on a unit that had ap to spare.
C25_Witness ==
    /\ lastOp[1] = "set_overwatch"
    /\ lastOp[2] = OVERWATCH_AP_COST
    /\ lastOp[3]
    /\ squad[1].overwatch
    /\ squad[1].ap = 0

\* C26: reload(cost) succeeds exactly when the unit is not moving, has
\* ap >= cost and ammo < clip_max; when it succeeds the ammo is clip_max and
\* ap is lower by cost; when it fails the unit is unchanged.
C26_ReloadContract ==
    [][lastOp'[1] = "reload" =>
          LET u == squad[1]
              v == squad'[1]
              cost == lastOp'[2]
              ok == lastOp'[3]
          IN  /\ ok <=> /\ Len(u.waypoints) = 0
                         /\ u.ap >= cost
                         /\ u.ammo < u.clip_max
              /\ ok => v = [u EXCEPT !.ammo = u.clip_max, !.ap = u.ap - cost]
              /\ ~ok => v = u]_vars

\* reload succeeded at the cost main() passes and left ap behind.
C26_Witness ==
    /\ lastOp[1] = "reload"
    /\ lastOp[2] = RELOAD_AP_COST
    /\ lastOp[3]
    /\ squad[1].ammo = squad[1].clip_max
    /\ squad[1].ap = UNIT_AP_MAX - RELOAD_AP_COST

(***************************************************************************)
(* Claims about the game loop (specification SpecGame)                     *)
(***************************************************************************)
\* C21: every unit has 0 <= ap <= ap_max in every state of the game, whatever
\* the order of move orders (also to a unit that is moving), passes of the
\* loop, manual fire, overwatch, reload, end of turn and enemy phase.
C21_ApInRange ==
    \A k \in 1..Len(squad) : squad[k].ap >= 0 /\ squad[k].ap <= squad[k].ap_max

\* A unit that stands away from its spawn tile with no ap left and without
\* overwatch: the costs of its moves took all of its ap.
C21_Witness ==
    \E k \in 1..Len(squad) :
        /\ squad[k].ap = 0
        /\ ~squad[k].overwatch
        /\ Len(squad[k].waypoints) = 0
        /\ squad[k].grid # GameSpawns[k]

\* C24: the grid cell of a unit changes only in a pass of the loop that finds
\* the unit not moving with an ordered destination, and then to that
\* destination, which is forgotten; an order and a tick of a unit that is
\* still moving leave the cell where it was before the move.
C24_GridOnlyByDriver ==
    [][\A k \in 1..Len(squad) :
          squad'[k].grid # squad[k].grid =>
              /\ lastOp'[1] = "frame"
              /\ pending_dest[k] # None
              /\ squad'[k].grid = pending_dest[k]
              /\ Len(squad'[k].waypoints) = 0
              /\ pending_dest'[k] = None]_vars

\* A pass of the loop has put a unit on the tile it was ordered to.
C24_Witness ==
    /\ lastOp[1] = "frame"
    /\ \E k \in 1..Len(squad) :
           /\ squad[k].grid # GameSpawns[k]
           /\ pending_dest[k] = None
           /\ squad[k].ap = UNIT_AP_MAX - 1

\* TRUE when the enemy of index e has budget and path left.
StillMoving(e) ==
    /\ e \in DOMAIN enemy_steps_left
    /\ enemy_steps_left[e] > 0
    /\ e \in DOMAIN enemy_plans.paths
    /\ enemy_plans.paths[e] # <<>>

PathToUnit(e, k) ==
    a_star(enemies[e].grid, squad[k].grid, cols, rows,
           (blocked \cup {squad[m].grid : m \in (1..Len(squad)) \ {k}})
               \cup {enemies[m].grid : m \in (1..Len(enemies)) \ {e}})

\* The plan the enemy of index e is due: the path to the first unit, in squad
\* order, whose path is the shortest; <<>> when no unit has a path.
DuePlan(e) ==
    IF \A k \in 1..Len(squad) : PathToUnit(e, k) = <<>>
    THEN <<>>
    ELSE PathToUnit(e, CHOOSE k \in 1..Len(squad) :
                          /\ PathToUnit(e, k) # <<>>
                          /\ \A m \in 1..Len(squad) :
                                PathToUnit(e, m) # <<>> =>
                                    \/ Len(PathToUnit(e, k)) < Len(PathToUnit(e, m))
                                    \/ (Len(PathToUnit(e, k)) = Len(PathToUnit(e, m))
                                        /\ k <= m))

\* C28: when the end of the player turn moves the phase to ENEMY, every enemy
\* with a path to a unit is assigned its due plan, and an enemy without one
\* is assigned none and stays where it is.
C28_ShortestPlanAssigned ==
    [][(lastOp'[1] = "end_turn" /\ phase = "PLAYER" /\ phase' = "ENEMY") =>
          /\ ~enemy_plans'.none
          /\ \A e \in 1..Len(enemies) :
                IF DuePlan(e) # <<>>
                THEN /\ e \in DOMAIN enemy_plans'.paths
                     /\ enemy_plans'.paths[e] = DuePlan(e)
                ELSE /\ e \notin DOMAIN enemy_plans'.paths
                     /\ enemies'[e] = enemies[e]]_vars

Watchers(m) ==
    {k \in 1..Len(squad) :
        squad[k].overwatch /\ has_los(squad[k].grid, enemies[m].grid, blocked)}

\* C30: process_overwatch_triggers raises nothing; the units that fire are the
\* first of the units due a shot, in squad order, and all of them unless the
\* mover was killed; each unit that fires spends one round, logs one
\* OVERWATCH shot at the mover's tile and has its overwatch cleared; only the
\* last of the shots can be a kill; every other unit, without line of sight
\* or after the kill, is unchanged.
C30_ReactionFire ==
    [][lastOp'[1] = "process_overwatch_triggers" =>
          LET m == lastOp'[2]
              tile == enemies[m].grid
              due == Watchers(m)
          IN  /\ raised' = raised
              /\ \E fired \in SUBSET due :
                    /\ due # {} => fired # {}
                    /\ \A k \in fired, j \in due : j < k => j \in fired
                    /\ fired # due => get_enemy_at(enemies', tile) = 0
                    /\ \A k \in 1..Len(squad) :
                          IF k \in fired
                          THEN squad'[k] = [squad[k] EXCEPT !.overwatch = FALSE,
                                                            !.ammo = @ - 1]
                          ELSE squad'[k] = squad[k]
                    /\ Len(log') = Len(log) + Cardinality(fired)
                    /\ \A i \in (Len(log) + 1)..Len(log') :
                          /\ log'[i][1] = "OVERWATCH"
                          /\ log'[i][2] = tile
                          /\ i < Len(log') =>
                                (log'[i][3] = "MISS" \/ ~log'[i][6])]_vars

(***************************************************************************)
(* Further claims about the game loop (specification SpecGame)             *)
(***************************************************************************)
\* C34: in every reachable state no two units, no two enemies and no unit
\* and enemy share a grid cell, and none of them stands on a wall, whatever
\* the order of move orders, movement ticks, landings, enemy placements and
\* wall toggles.
C34_TileExclusivity ==
    /\ \A k, m \in 1..Len(squad) : k # m => squad[k].grid # squad[m].grid
    /\ \A k, m \in 1..Len(enemies) : k # m => enemies[k].grid # enemies[m].grid
    /\ \A k \in 1..Len(squad), m \in 1..Len(enemies) :
            squad[k].grid # enemies[m].grid
    /\ \A k \in 1..Len(squad) : squad[k].grid \notin blocked
    /\ \A m \in 1..Len(enemies) : enemies[m].grid \notin blocked

\* C31: the ENEMY phase hands control back exactly when no enemy of the
\* roster has both budget and path left: the phase changes from ENEMY to
\* PLAYER only in a pass of the loop, and a pass made in the ENEMY phase ends
\* with the phase PLAYER if and only if it leaves no enemy with both.
C31_PhaseHandsBack ==
    [][/\ (phase = "ENEMY" /\ phase' = "PLAYER") => lastOp'[1] = "frame"
       /\ (phase = "ENEMY" /\ lastOp'[1] = "frame") =>
              (phase' = "PLAYER" <=>
                   \A e \in 1..Len(enemies') : ~StillMoving(e)')]_vars

\* C33: every ENEMY phase eventually ends: with the loop running, a state
\* whose phase is ENEMY is followed by one whose phase is PLAYER.
C33_EnemyPhaseEnds == (phase = "ENEMY") ~> (phase = "PLAYER")

\* The requests of the player that act on a unit.
UnitRequests == {"move_order", "resolve_shot", "key_reload", "key_overwatch"}

\* C35: a manual shot that meets its preconditions and has line of sight
\* resolves and leaves the shooter with ap = 0, as a successful overwatch
\* arming does; and in the PLAYER phase no move order, fire, reload or
\* overwatch request changes a unit that has armed overwatch: its record and
\* its pending destination stay as they are.
C35_TurnEndingActions ==
    [][/\ (/\ lastOp'[1] = "resolve_shot"
           /\ ShotPreconditions(squad[lastOp'[3]], lastOp'[4], "Shot")
           /\ has_los(squad[lastOp'[3]].grid, lastOp'[4], blocked)) =>
                /\ raised' = "none"
                /\ squad'[lastOp'[3]].ap = 0
                /\ squad'[lastOp'[3]].ammo = squad[lastOp'[3]].ammo - 1
       /\ \A k \in 1..Len(squad) :
              (/\ phase = "PLAYER"
               /\ lastOp'[1] \in UnitRequests
               /\ squad[k].overwatch) =>
                    /\ squad'[k] = squad[k]
                    /\ pending_dest'[k] = pending_dest[k]]_vars

\* C38: player commands take effect only in the PLAYER phase: ENTER is
\* refused while a unit is moving, so in the ENEMY phase no unit is moving or
\* has a destination pending; a step taken in the ENEMY phase is a pass of
\* the loop and leaves every unit's grid cell, ammo and AP, the roster and the
\* walls as they are; and in the PLAYER phase the roster changes only by K_n,
\* which removes one enemy or appends one and moves none.
C38_PhaseGating ==
    /\ [](phase = "ENEMY" =>
             \A k \in 1..Len(squad) :
                 ~is_moving(squad[k]) /\ pending_dest[k] = None)
    /\ [][/\ (/\ lastOp'[1] = "end_turn"
              /\ \E k \in 1..Len(squad) : is_moving(squad[k])) =>
                    (phase' = "PLAYER" /\ turn' = turn)
          /\ phase = "ENEMY" =>
                /\ lastOp'[1] = "frame"
                /\ \A k \in 1..Len(squad) :
                      /\ squad'[k].grid = squad[k].grid
                      /\ squad'[k].ammo = squad[k].ammo
                      /\ squad'[k].ap = squad[k].ap
                /\ enemies' = enemies
                /\ blocked' = blocked
          /\ phase = "PLAYER" =>
                \/ enemies' = enemies
                \/ /\ lastOp'[1] = "toggle_enemy"
                   /\ \/ \E e \in 1..Len(enemies) : enemies' = list_remove(enemies, e)
                      \/ /\ Len(enemies') = Len(enemies) + 1
                         /\ SubSeq(enemies', 1, Len(enemies)) = enemies]_vars

\* ENTER has ended the player turn with an enemy in the roster after a unit
\* walked off its spawn tile: the phase is ENEMY and no unit is moving.
C38_Witness ==
    /\ phase = "ENEMY"
    /\ lastOp[1] = "end_turn"
    /\ raised = "none"
    /\ enemies # <<>>
    /\ \E k \in 1..Len(squad) : squad[k].grid # GameSpawns[k]

\* TRUE when every unit on overwatch has ap = 0, a round left and no
\* waypoint left.
ArmedUnitsReady ==
    \A k \in 1..Len(squad) :
        squad[k].overwatch =>
            /\ squad[k].ap = 0
            /\ squad[k].ammo > 0
            /\ ~is_moving(squad[k])

(***************************************************************************)
(* Further claims about reaction fire (specification SpecReaction)         *)
(***************************************************************************)
\* C36: a unit on overwatch has ap = 0, ammo > 0 and is not moving; so a call
\* of process_overwatch_triggers with a unit on overwatch in line of sight of
\* the mover raises nothing and resolves a shot (a log entry is appended),
\* and every unit whose overwatch the call clears has spent one round.
C36_ArmedShotsResolve ==
    /\ []ArmedUnitsReady
    /\ [][lastOp'[1] = "process_overwatch_triggers" =>
              /\ raised' = "none"
              /\ Watchers(lastOp'[2]) # {} => Len(log') > Len(log)
              /\ \A k \in 1..Len(squad) :
                    (squad[k].overwatch /\ ~squad'[k].overwatch) =>
                        squad'[k].ammo = squad[k].ammo - 1]_vars

\* C37: a unit fires its one reaction shot of the phase at the first enemy
\* step that ends on a cell it has line of sight to: when
\* process_overwatch_triggers is called for the mover, nothing is raised,
\* every unit on overwatch with line of sight to the mover's cell either
\* fires (one round spent) and is off overwatch afterwards, so that it
\* cannot fire again, or is left as it was because the mover is gone; a unit
\* without line of sight keeps its overwatch for a later step.
C37_OneShotAtFirstSight ==
    [][lastOp'[1] = "process_overwatch_triggers" =>
          LET m == lastOp'[2]
              tile == enemies[m].grid
          IN  /\ raised' = "none"
              /\ \A k \in 1..Len(squad) :
                    IF k \in Watchers(m)
                    THEN \/ /\ ~squad'[k].overwatch
                            /\ squad'[k].ammo = squad[k].ammo - 1
                         \/ /\ get_enemy_at(enemies', tile) = 0
                            /\ squad'[k] = squad[k]
                    ELSE squad'[k] = squad[k]]_vars

(***************************************************************************)
(* Claims about the movement tiers (specification SpecRanges)              *)
(***************************************************************************)
\* The cells the scan of draw_move_ranges may enter.
RangeFree == (GridCells(cols, rows) \ blocked) \ call_args[3]

\* C39: with both tiers painted, blue = bfs_reachable(origin, N) and yellow =
\* bfs_reachable(origin, 2N) minus blue share no cell, together they are
\* bfs_reachable(origin, 2N), and every yellow cell is at a shortest
\* distance d from the origin with N < d <= 2N.
C39_TiersPartition ==
    (lastOp[1] = "draw_move_ranges" /\ call_args[2] >= 2) =>
        LET origin == call_args[1]
            n == call_args[4]
            blue == call_result.blue
            yellow == call_result.yellow
        IN  /\ blue = bfs_reachable(origin, n, call_args[3])
            /\ blue \cap yellow = {}
            /\ blue \cup yellow = bfs_reachable(origin, 2 * n, call_args[3])
            /\ \A c \in yellow :
                  /\ ShortestDistance(origin, c, RangeFree) > n
                  /\ ShortestDistance(origin, c, RangeFree) <= 2 * n

\* Both tiers were painted around a wall and an occupied tile, and neither
\* is empty.
C39_Witness ==
    /\ lastOp[1] = "draw_move_ranges"
    /\ call_args[2] >= 2
    /\ call_result.blue # {}
    /\ call_result.yellow # {}
    /\ blocked # {}
    /\ call_args[3] # blocked

====
